---- MODULE Spec2Model ----
(***************************************************************************)
(* Content-addressed integrity core of TheQube.L0Q3R:                      *)
(*   - canonical JSON hashing   (docling-cluster/lib/canonical.py,         *)
(*                               validation/anchors/merkle_forest.py)      *)
(*   - hash-chain ledger        (docling-cluster/lib/ledger.py)            *)
(*   - Merkle tree and forest   (validation/anchors/merkle_forest.py)      *)
(*                                                                         *)
(* Strings are sequences of one-character (or one-blob) tokens, so that     *)
(* string concatenation is \o.  SHA-256 is modelled as a collision-free    *)
(* constructor: the digest of s is s between two marker tokens.            *)
(***************************************************************************)
EXTENDS Integers, Sequences, FiniteSets, TLC

VARIABLES
    now,      \* the reading of time.time(), non-decreasing
    ledger,   \* a Ledger: [chain, last_hash]
    tree,     \* a stand-alone MerkleTree
    forest,   \* a MerkleForest: [config, trees]
    last,     \* history: the last call made and what it observed
    calls,    \* history: the first writing calls made on the forest, in order
    canon,    \* a payload and the hashes computed from it
    twin,     \* a second forest, given the same writes as forest
    inflight, \* the calls in progress: each caller's position and locals
    explorer, \* a graph, the arguments of build_path and its result
    scheduler \* the schedules of a TrainingScheduler, its loop and its jobs

vars == <<now, ledger, tree, forest, last, calls, canon, twin, inflight, explorer, scheduler>>

-----------------------------------------------------------------------------
(* Bounds of the model *)

MaxTime == 2          \* clock readings are 0..MaxTime
MaxLeaves == 3        \* leaves of the stand-alone tree
MaxChain == 3         \* records in the ledger
MaxForestLeaves == 2  \* leaves of one tree of the forest
HistoryLen == 3       \* calls remembered in the history variable calls

-----------------------------------------------------------------------------
(* JSON values.  t is the Python type, s the characters of a scalar, o the *)
(* items of a dict in insertion order (a sequence of [k, v] records).      *)

Num(c)  == [t |-> "num",  s |-> <<c>>, o |-> <<>>]
Str(cs) == [t |-> "str",  s |-> cs,    o |-> <<>>]
Null    == [t |-> "null", s |-> <<>>,  o |-> <<>>]
Obj(items) == [t |-> "obj", s |-> <<>>, o |-> items]
Item(k, v) == [k |-> k, v |-> v]

\* Python's truth value of a JSON value (the left operand of `or`).
\* a Python bytes object: a value json.dumps has no encoding for
Bytes(s) == [t |-> "bytes", s |-> s, o |-> <<>>]

Truthy(v) ==
    CASE v.t = "null" -> FALSE
      [] v.t = "str"  -> Len(v.s) > 0
      [] v.t = "num"  -> v.s # <<"0">>
      [] v.t = "bytes" -> Len(v.s) > 0
      [] OTHER        -> Len(v.o) > 0

\* The keys the model uses, in Python's str order (by code point).
KeyOrder == <<"a", "data", "digest", "op", "prev", "ts", "x">>

HasKey(items, k) == \E i \in 1..Len(items) : items[i].k = k

\* dict.get(k): the value, or None
Get(items, k) ==
    IF HasKey(items, k)
    THEN (CHOOSE i \in 1..Len(items) : items[i].k = k)
    ELSE 0

GetValue(items, k) == IF HasKey(items, k) THEN items[Get(items, k)].v ELSE Null

\* {key: value for key, value in payload.items() if key != k}
Without(items, k) == SelectSeq(items, LAMBDA it : it.k # k)

-----------------------------------------------------------------------------
(* json.dumps(..., sort_keys=True, separators=(",", ":")) *)

\* "U+00E9" stands for the one character e-acute
NonAscii == {"U+00E9"}

\* ensure_ascii=True writes a non-ASCII character as \uXXXX
EscapeChar(c, ensure_ascii) ==
    IF ensure_ascii /\ c \in NonAscii
    THEN <<"\\", "u", "0", "0", "e", "9">>
    ELSE <<c>>

\* a string without non-ASCII characters is written as it is
RECURSIVE EscapeString(_, _)
EscapeString(cs, ensure_ascii) ==
    IF \A i \in 1..Len(cs) : cs[i] \notin NonAscii THEN cs
    ELSE EscapeChar(Head(cs), ensure_ascii) \o EscapeString(Tail(cs), ensure_ascii)

Quote(cs, ensure_ascii) == <<"\"">> \o EscapeString(cs, ensure_ascii) \o <<"\"">>

\* variant: sort_keys is off, the keys come in insertion order
InsertionKeys(items) == [i \in 1..Len(items) |-> items[i].k]

\* the keys of a dict, sorted
SortedKeys(items) == SelectSeq(KeyOrder, LAMBDA k : HasKey(items, k))

RECURSIVE Dumps(_, _)
RECURSIVE DumpItems(_, _, _)
DumpItems(items, keys, ensure_ascii) ==
    IF keys = <<>> THEN <<>>
    ELSE Quote(<<Head(keys)>>, ensure_ascii) \o <<":">>
         \o Dumps(GetValue(items, Head(keys)), ensure_ascii)
         \o (IF Len(keys) > 1 THEN <<",">> ELSE <<>>)
         \o DumpItems(items, Tail(keys), ensure_ascii)

Dumps(v, ensure_ascii) ==
    CASE v.t = "null" -> <<"null">>
      [] v.t = "num"  -> v.s
      [] v.t = "str"  -> Quote(v.s, ensure_ascii)
      [] v.t = "bytes" -> <<"TypeError">>
      [] OTHER        -> <<"{">> \o DumpItems(v.o, SortedKeys(v.o), ensure_ascii) \o <<"}">>

\* json.dumps returns for v; otherwise it raises TypeError and returns nothing
RECURSIVE Serializable(_)
Serializable(v) ==
    CASE v.t = "bytes" -> FALSE
      [] v.t = "obj"   -> \A i \in 1..Len(v.o) : Serializable(v.o[i].v)
      [] OTHER         -> TRUE

-----------------------------------------------------------------------------
(* Hashing *)

\* hashlib.sha256(data).hexdigest(), collision-free
sha256_hex(data) == <<"sha256(">> \o data \o <<")">>

\* merkle_forest.canonicalize_jcs: json.dumps with the default ensure_ascii
canonicalize_jcs(payload) == Dumps(Obj(payload), TRUE)

\* canonical.canonicalize: json.dumps(..., ensure_ascii=False).encode("utf-8")
canonicalize(data) == Dumps(Obj(data), FALSE)

compute_hash(data) == sha256_hex(canonicalize(data))

-----------------------------------------------------------------------------
(* Optional values: None is the empty sequence, a value x is <<x>>. *)

None == <<>>
Some(x) == <<x>>

-----------------------------------------------------------------------------
(* Merkle primitives (validation/anchors/merkle_forest.py) *)

\* variant: the declared digest is never used
LeafHashFallbackAlways(payload) ==
    sha256_hex(canonicalize_jcs(Without(payload, "digest")))

\* HashSurfaces.from_payload(payload).leaf_hash; a declared digest is a str
canonical_leaf_hash(payload) ==
    LET canonical_source  == Without(payload, "digest")
        canonical_payload == canonicalize_jcs(canonical_source)
        declared          == GetValue(payload, "digest")
    IN  IF Truthy(declared) THEN declared.s ELSE sha256_hex(canonical_payload)

\* canonicalize_jcs(canonical_source) raises inside from_payload; it is
\* evaluated whether or not a digest is declared
canonical_leaf_hash_raises(payload) ==
    ~Serializable(Obj(Without(payload, "digest")))

\* MerkleNode(hash, left, right, is_leaf, leaf_id)
LeafNode(hash, leaf_id) ==
    [hash |-> hash, left |-> None, right |-> None,
     is_leaf |-> TRUE, leaf_id |-> Some(leaf_id)]

ParentNode(left, right) ==
    [hash |-> sha256_hex(left.hash \o right.hash),
     left |-> Some(left), right |-> Some(right),
     is_leaf |-> FALSE, leaf_id |-> None]

\* variant: an unpaired last node is promoted unchanged
NextLevelPromote(level) ==
    [j \in 1..((Len(level) + 1) \div 2) |->
        IF 2 * j <= Len(level)
        THEN ParentNode(level[2 * j - 1], level[2 * j])
        ELSE level[2 * j - 1]]

\* one pass of the for loop of _build_tree: an unpaired last node is paired
\* with itself
NextLevel(level) ==
    [j \in 1..((Len(level) + 1) \div 2) |->
        LET left  == level[2 * j - 1]
            right == IF 2 * j <= Len(level) THEN level[2 * j] ELSE left
        IN  ParentNode(left, right)]

\* the while loop of _build_tree
RECURSIVE BuildLevels(_)
BuildLevels(level) ==
    IF Len(level) > 1 THEN BuildLevels(NextLevel(level)) ELSE level[1]

\* MerkleTree._build_tree
_build_tree(leaves) ==
    IF leaves = <<>> THEN None ELSE Some(BuildLevels(leaves))

\* MerkleTree(tree_id): both timestamps are read at construction
NewTree(tree_id, created, updated) ==
    [tree_id |-> tree_id, leaves |-> <<>>, root |-> None,
     created_at_utc |-> created, last_updated_utc |-> updated]

\* variant: the root is rebuilt from the leaves before the append
add_leaf_stale_root(t, leaf_id, payload, time) ==
    LET node == LeafNode(canonical_leaf_hash(payload), leaf_id)
    IN  [t EXCEPT !.leaves = Append(@, node),
                  !.last_updated_utc = time,
                  !.root = _build_tree(t.leaves)]

\* MerkleTree.add_leaf, with time the reading of time.time(); when
\* canonical_leaf_hash raises, nothing of the tree has been touched yet
\* variant: the time of the last update is left as it was
add_leaf_no_stamp(t, leaf_id, payload, time) ==
    LET node   == LeafNode(canonical_leaf_hash(payload), leaf_id)
        leaves == Append(t.leaves, node)
    IN  IF canonical_leaf_hash_raises(payload) THEN t
        ELSE [t EXCEPT !.leaves = leaves, !.root = _build_tree(leaves)]

add_leaf(t, leaf_id, payload, time) ==
    LET node   == LeafNode(canonical_leaf_hash(payload), leaf_id)
        leaves == Append(t.leaves, node)
    IN  IF canonical_leaf_hash_raises(payload) THEN t
        ELSE [t EXCEPT !.leaves = leaves,
                       !.last_updated_utc = time,
                       !.root = _build_tree(leaves)]

\* variant: the append and the rebuild of the root are one step
add_leaf_append_atomic(t, leaf_id, payload) ==
    LET node   == LeafNode(canonical_leaf_hash(payload), leaf_id)
        leaves == Append(t.leaves, node)
    IN  [t EXCEPT !.leaves = leaves, !.root = _build_tree(leaves)]

\* add_leaf up to self.leaves.append(node)
add_leaf_append(t, leaf_id, payload) ==
    [t EXCEPT !.leaves = Append(@, LeafNode(canonical_leaf_hash(payload), leaf_id))]

\* self.last_updated_utc = time.time()
add_leaf_stamp(t, time) == [t EXCEPT !.last_updated_utc = time]

\* self.root = self._build_tree(self.leaves)
add_leaf_rebuild(t) == [t EXCEPT !.root = _build_tree(t.leaves)]

\* MerkleTree.get_root_hash
get_root_hash(t) == IF t.root # None THEN Some(t.root[1].hash) ELSE None

\* variant: the right subtree is searched first
RECURSIVE dfs_right_first(_, _)
dfs_right_first(node, target) ==
    IF node.is_leaf /\ node.leaf_id = Some(target)
    THEN [found |-> TRUE, acc |-> <<>>]
    ELSE IF node.left = None \/ node.right = None
    THEN [found |-> FALSE, acc |-> <<>>]
    ELSE LET r == dfs_right_first(node.right[1], target)
         IN  IF r.found
             THEN [found |-> TRUE,
                   acc |-> Append(r.acc, <<node.left[1].hash, "L">>)]
             ELSE LET l == dfs_right_first(node.left[1], target)
                  IN  IF l.found
                      THEN [found |-> TRUE,
                            acc |-> Append(l.acc, <<node.right[1].hash, "R">>)]
                      ELSE [found |-> FALSE, acc |-> <<>>]

\* variant: each pair is put in front of the path, root side first
RECURSIVE dfs_root_first(_, _)
dfs_root_first(node, target) ==
    IF node.is_leaf /\ node.leaf_id = Some(target)
    THEN [found |-> TRUE, acc |-> <<>>]
    ELSE IF node.left = None \/ node.right = None
    THEN [found |-> FALSE, acc |-> <<>>]
    ELSE LET l == dfs_root_first(node.left[1], target)
         IN  IF l.found
             THEN [found |-> TRUE,
                   acc |-> <<<<node.right[1].hash, "R">>>> \o l.acc]
             ELSE LET r == dfs_root_first(node.right[1], target)
                  IN  IF r.found
                      THEN [found |-> TRUE,
                            acc |-> <<<<node.left[1].hash, "L">>>> \o r.acc]
                      ELSE [found |-> FALSE, acc |-> <<>>]

\* the inner dfs of inclusion_proof: [found, acc]
RECURSIVE dfs(_, _)
dfs(node, target) ==
    IF node.is_leaf /\ node.leaf_id = Some(target)
    THEN [found |-> TRUE, acc |-> <<>>]
    ELSE IF node.left = None \/ node.right = None
    THEN [found |-> FALSE, acc |-> <<>>]
    ELSE LET l == dfs(node.left[1], target)
         IN  IF l.found
             THEN [found |-> TRUE,
                   acc |-> Append(l.acc, <<node.right[1].hash, "R">>)]
             ELSE LET r == dfs(node.right[1], target)
                  IN  IF r.found
                      THEN [found |-> TRUE,
                            acc |-> Append(r.acc, <<node.left[1].hash, "L">>)]
                      ELSE [found |-> FALSE, acc |-> <<>>]

\* variant: the path is returned whether or not the leaf was found
inclusion_proof_always_path(t, leaf_id) ==
    IF t.root = None THEN None
    ELSE Some(dfs(t.root[1], leaf_id).acc)

\* MerkleTree.inclusion_proof: None, or the list of (sibling_hash, position)
inclusion_proof(t, leaf_id) ==
    IF t.root = None THEN None
    ELSE LET r == dfs(t.root[1], leaf_id)
         IN  IF r.found THEN Some(r.acc) ELSE None

\* variant: the position of the sibling is ignored
RECURSIVE FoldProofNoSide(_, _)
FoldProofNoSide(h, proof) ==
    IF proof = <<>> THEN h
    ELSE FoldProofNoSide(sha256_hex(h \o Head(proof)[1]), Tail(proof))

\* the for loop of verify_inclusion
RECURSIVE FoldProof(_, _)
FoldProof(h, proof) ==
    IF proof = <<>> THEN h
    ELSE LET sibling_hash == Head(proof)[1]
             pos          == Head(proof)[2]
         IN  IF pos = "R"
             THEN FoldProof(sha256_hex(h \o sibling_hash), Tail(proof))
             ELSE FoldProof(sha256_hex(sibling_hash \o h), Tail(proof))

\* variant: only the first character of the two hashes is compared
FirstToken(s) == IF s = <<>> THEN <<>> ELSE <<s[1]>>

VerifyInclusionPrefix(leaf_hash, root_hash, proof) ==
    FirstToken(FoldProof(leaf_hash, proof)) = FirstToken(root_hash)

\* MerkleTree.verify_inclusion
verify_inclusion(leaf_hash, root_hash, proof) ==
    FoldProof(leaf_hash, proof) = root_hash

-----------------------------------------------------------------------------
(* Merkle forest (validation/anchors/merkle_forest.py).  The dict trees is  *)
(* the sequence of its values in insertion order; the key of a tree is its *)
(* tree_id.                                                                *)

\* ForestConfig.stale_seconds by default: 24h
DefaultStaleSeconds == 60 * 60 * 24

\* trees.keys()
TreeIds(trees) == {trees[i].tree_id : i \in 1..Len(trees)}

\* trees[thread_id]
TreeOf(trees, thread_id) ==
    trees[CHOOSE i \in 1..Len(trees) : trees[i].tree_id = thread_id]

\* del trees[tid] for every tid in keys
Delete(trees, keys) == SelectSeq(trees, LAMBDA t : t.tree_id \notin keys)

\* variant: the sort is descending, the most recently written go first
Newest(trees, to_drop) ==
    LET Before(j, i) ==
            \/ trees[j].last_updated_utc > trees[i].last_updated_utc
            \/ /\ trees[j].last_updated_utc = trees[i].last_updated_utc
               /\ j < i
        Rank(i) == Cardinality({j \in 1..Len(trees) : Before(j, i)})
    IN  {trees[i].tree_id : i \in {i \in 1..Len(trees) : Rank(i) < to_drop}}

\* the keys of ordered[:to_drop], ordered being trees.items() sorted by
\* last_updated_utc; sorted() is stable, so ties keep insertion order
Oldest(trees, to_drop) ==
    LET Before(j, i) ==
            \/ trees[j].last_updated_utc < trees[i].last_updated_utc
            \/ /\ trees[j].last_updated_utc = trees[i].last_updated_utc
               /\ j < i
        Rank(i) == Cardinality({j \in 1..Len(trees) : Before(j, i)})
    IN  {trees[i].tree_id : i \in {i \in 1..Len(trees) : Rank(i) < to_drop}}

\* variant: no staleness step
maybe_prune_keep_stale(config, trees, t) ==
    LET to_drop == Len(trees) - config.max_trees
        dropped == IF Len(trees) > config.max_trees
                   THEN Oldest(trees, to_drop) ELSE {}
    IN  [trees |-> Delete(trees, dropped), stale_keys |-> {}, dropped |-> dropped]

\* variant: no capacity step
maybe_prune_no_cap(config, trees, t) ==
    LET stale_keys ==
            {trees[i].tree_id : i \in
                {i \in 1..Len(trees) :
                    (t - trees[i].last_updated_utc) > config.stale_seconds}}
    IN  [trees |-> Delete(trees, stale_keys), stale_keys |-> stale_keys,
         dropped |-> {}]

\* variant: the staleness test is >= instead of >
maybe_prune_stale_geq(config, trees, t) ==
    LET stale_keys ==
            {trees[i].tree_id : i \in
                {i \in 1..Len(trees) :
                    (t - trees[i].last_updated_utc) >= config.stale_seconds}}
        fresh   == Delete(trees, stale_keys)
        to_drop == Len(fresh) - config.max_trees
        dropped == IF Len(fresh) > config.max_trees
                   THEN Oldest(fresh, to_drop) ELSE {}
    IN  [trees |-> Delete(fresh, dropped), stale_keys |-> stale_keys,
         dropped |-> dropped]

\* MerkleForest._maybe_prune with t the reading of _now(): the trees left,
\* with the keys removed as stale and the keys dropped for capacity
_maybe_prune(config, trees, t) ==
    LET stale_keys ==
            {trees[i].tree_id : i \in
                {i \in 1..Len(trees) :
                    (t - trees[i].last_updated_utc) > config.stale_seconds}}
        fresh   == Delete(trees, stale_keys)
        to_drop == Len(fresh) - config.max_trees
        dropped == IF Len(fresh) > config.max_trees
                   THEN Oldest(fresh, to_drop) ELSE {}
    IN  [trees |-> Delete(fresh, dropped), stale_keys |-> stale_keys,
         dropped |-> dropped]

\* variant: the pruning pass runs on every call, before the branch is looked up
add_fossil_always_prune(f, thread_id, leaf_id, payload, tp, tc, ta) ==
    LET kept == _maybe_prune(f.config, f.trees, tp).trees
    IN  IF thread_id \notin TreeIds(kept)
        THEN Append(kept, add_leaf(NewTree(thread_id, tc, tc), leaf_id, payload, ta))
        ELSE [i \in 1..Len(kept) |->
                IF kept[i].tree_id = thread_id
                THEN add_leaf(kept[i], leaf_id, payload, ta)
                ELSE kept[i]]

\* MerkleForest.add_fossil_to_thread: the trees after it.  tp, tc and ta are
\* the readings of the clock in _maybe_prune, in MerkleTree() and in add_leaf.
add_fossil_to_thread(f, thread_id, leaf_id, payload, tp, tc, ta) ==
    IF thread_id \notin TreeIds(f.trees)
    THEN LET kept == _maybe_prune(f.config, f.trees, tp).trees
         IN  Append(kept, add_leaf(NewTree(thread_id, tc, tc), leaf_id, payload, ta))
    ELSE [i \in 1..Len(f.trees) |->
            IF f.trees[i].tree_id = thread_id
            THEN add_leaf(f.trees[i], leaf_id, payload, ta)
            ELSE f.trees[i]]

\* variant: the lookup refreshes the tree's last_updated_utc (LRU by read)
trees_after_get_touch(trees, thread_id, t) ==
    [i \in 1..Len(trees) |->
        IF trees[i].tree_id = thread_id
        THEN [trees[i] EXCEPT !.last_updated_utc = t]
        ELSE trees[i]]

\* variant: the lookup is self.trees.setdefault(thread_id, MerkleTree(...))
trees_after_setdefault(trees, thread_id, t) ==
    IF thread_id \in TreeIds(trees) THEN trees
    ELSE Append(trees, NewTree(thread_id, t, t))

\* self.trees after the lookup self.trees.get(thread_id), made at time t
trees_after_get(trees, thread_id, t) == trees

\* MerkleForest.get_root_hash_for_thread
get_root_hash_for_thread(f, thread_id) ==
    IF thread_id \in TreeIds(f.trees)
    THEN get_root_hash(TreeOf(f.trees, thread_id))
    ELSE None

\* variant: no filter on the root, a tree without a root maps to None
get_forest_roots_all(f) ==
    {<<f.trees[i].tree_id,
       IF get_root_hash(f.trees[i]) # None
       THEN get_root_hash(f.trees[i])[1] ELSE None>> : i \in 1..Len(f.trees)}

\* MerkleForest.get_forest_roots: the set of (thread_id, root_hash) items
get_forest_roots(f) ==
    {<<f.trees[i].tree_id, get_root_hash(f.trees[i])[1]>> :
        i \in {i \in 1..Len(f.trees) : get_root_hash(f.trees[i]) # None}}

\* variant: the removal is del self.trees[thread_id], a KeyError when absent
prune_thread_del_raises(f, thread_id) == thread_id \notin TreeIds(f.trees)

\* MerkleForest.prune_thread raises: pop with a default never does
prune_thread_raises(f, thread_id) == FALSE

\* variant: the branch is kept and only its root is cleared
prune_thread_soft(f, thread_id) ==
    [i \in 1..Len(f.trees) |->
        IF f.trees[i].tree_id = thread_id
        THEN [f.trees[i] EXCEPT !.root = None]
        ELSE f.trees[i]]

\* MerkleForest.prune_thread: trees.pop(thread_id, None)
prune_thread(f, thread_id) == Delete(f.trees, {thread_id})

-----------------------------------------------------------------------------
(* Hash-chain ledger (docling-cluster/lib/ledger.py) *)

\* "0" * 64
ZeroHash == [i \in 1..64 |-> "0"]

\* the dict record_entry builds, in insertion order
Entry(operation, timestamp, prev, data) ==
    <<Item("op", Str(<<operation>>)),
      Item("ts", Num(ToString(timestamp))),
      Item("prev", Str(prev)),
      Item("data", Obj(data))>>

\* variant: last_hash is not advanced
record_entry_keep_last(l, operation, data, t) ==
    LET entry      == Entry(operation, t, l.last_hash, data)
        entry_hash == compute_hash(entry)
    IN  [chain |-> Append(l.chain, [hash |-> entry_hash, entry |-> entry]),
         last_hash |-> l.last_hash]

\* compute_hash(entry) raises inside record_entry
record_entry_raises(l, operation, data, t) ==
    ~Serializable(Obj(Entry(operation, t, l.last_hash, data)))

\* variant: last_hash becomes the hash of the data alone
record_entry_hash_of_data(l, operation, data, t) ==
    LET entry      == Entry(operation, t, l.last_hash, data)
        entry_hash == compute_hash(entry)
    IN  IF record_entry_raises(l, operation, data, t) THEN l
        ELSE [chain |-> Append(l.chain, [hash |-> entry_hash, entry |-> entry]),
              last_hash |-> compute_hash(data)]

\* variant: the new record is put in front of the chain
record_entry_prepend(l, operation, data, t) ==
    LET entry      == Entry(operation, t, l.last_hash, data)
        entry_hash == compute_hash(entry)
    IN  IF record_entry_raises(l, operation, data, t) THEN l
        ELSE [chain |-> <<[hash |-> entry_hash, entry |-> entry]>> \o l.chain,
              last_hash |-> entry_hash]

\* variant: the entry is appended before its hash is computed
record_entry_append_first(l, operation, data, t) ==
    LET entry      == Entry(operation, t, l.last_hash, data)
        entry_hash == compute_hash(entry)
    IN  IF record_entry_raises(l, operation, data, t)
        THEN [chain |-> Append(l.chain, [hash |-> None, entry |-> entry]),
              last_hash |-> l.last_hash]
        ELSE [chain |-> Append(l.chain, [hash |-> entry_hash, entry |-> entry]),
              last_hash |-> entry_hash]

\* Ledger.record_entry, with t the reading of time.time(): the ledger after
\* it. compute_hash raises before the chain or last_hash is touched.
record_entry(l, operation, data, t) ==
    LET entry      == Entry(operation, t, l.last_hash, data)
        entry_hash == compute_hash(entry)
    IN  IF record_entry_raises(l, operation, data, t) THEN l
        ELSE [chain |-> Append(l.chain, [hash |-> entry_hash, entry |-> entry]),
              last_hash |-> entry_hash]

\* what record_entry returns: None stands for the raised TypeError
record_entry_return(l, operation, data, t) ==
    LET entry      == Entry(operation, t, l.last_hash, data)
        entry_hash == compute_hash(entry)
    IN  IF record_entry_raises(l, operation, data, t) THEN None
        ELSE Some([hash |-> entry_hash, entry |-> entry])

-----------------------------------------------------------------------------
(* Inputs *)

\* payloads handed to add_leaf / add_fossil_to_thread: without a digest,
\* with a declared digest, with an empty one and with a null one
PayloadPlain    == <<Item("x", Num("1")), Item("a", Num("2"))>>
PayloadDeclared == <<Item("a", Num("2")), Item("digest", Str(<<"d1">>))>>
PayloadEmpty    == <<Item("digest", Str(<<>>)), Item("a", Num("2"))>>
PayloadNull     == <<Item("x", Num("1")), Item("digest", Null)>>

TreePayloads == {PayloadPlain, PayloadDeclared, PayloadEmpty, PayloadNull}
LeafIds == {"l1", "l2", "l3"}

\* the readings time.time() can return next: the clock does not go back
Clock(from) == {t \in {from, from + 1} : t <= MaxTime}

\* the call the last step made
Call(op, thread, leaf_id, payload, t) ==
    [op |-> op, thread |-> thread, leaf_id |-> leaf_id, payload |-> payload,
     t |-> t, before |-> {}, pruned |-> FALSE,
     stale_keys |-> {}, dropped |-> {}, kept |-> {},
     ret |-> None, raised |-> FALSE, before_hash |-> <<>>, pre_failure |-> None,
     seen_leaves |-> <<>>, during |-> ""]

NoCall == Call("none", "", "", <<>>, 0)

\* a payload and what canonical_leaf_hash, compute_hash and canonicalize
\* returned for it
Canon(payload) ==
    [payload |-> payload, leaf_hash |-> None, hash |-> None, bytes |-> None]

NoCanon == Canon(<<>>)

\* the parts of the state a specification does not use
Idle ==
    /\ twin = <<>>
    /\ inflight = <<>>
    /\ explorer = <<>>
    /\ scheduler = <<>>

-----------------------------------------------------------------------------
(* State after construction *)

\* Ledger(): chain = [], last_hash = "0" * 64
InitLedger == [chain |-> <<>>, last_hash |-> ZeroHash]
\* MerkleForest(config=ForestConfig(stale_seconds, max_trees)): trees = {}
NewForest(stale_seconds, max_trees) ==
    [config |-> [stale_seconds |-> stale_seconds, max_trees |-> max_trees],
     trees |-> <<>>]

InitForest == NewForest(DefaultStaleSeconds, 1)

\* a stand-alone MerkleTree(tree_id="t")
InitTree ==
    /\ now = 0
    /\ ledger = InitLedger
    /\ tree = NewTree("t", 0, 0)
    /\ forest = InitForest
    /\ last = NoCall
    /\ calls = <<>>
    /\ canon = NoCanon
    /\ Idle

\* tree.add_leaf(leaf_id, payload), payload drawn from payloads
AddLeaf(payloads) ==
    /\ Len(tree.leaves) < MaxLeaves
    /\ \E leaf_id \in LeafIds, payload \in payloads, t \in Clock(now) :
          /\ tree' = add_leaf(tree, leaf_id, payload, t)
          /\ now' = t
          /\ last' = Call("add_leaf", "t", leaf_id, payload, t)
    /\ UNCHANGED <<ledger, forest, calls, canon, twin, inflight, explorer, scheduler>>

\* tree.add_leaf(leaf_id, payload)
TreeAddLeaf == AddLeaf(TreePayloads)

NextTree == TreeAddLeaf

SpecTree == InitTree /\ [][NextTree]_vars

-----------------------------------------------------------------------------
(* A single tree with lookups of proofs (SpecTreeApi) *)

\* a payload hashed by the tree and one that declares its digest
ApiTreePayloads == {PayloadPlain, PayloadDeclared}

\* tree.add_leaf(leaf_id, payload)
ApiAddLeaf == AddLeaf(ApiTreePayloads)

\* tree.inclusion_proof(leaf_id)
TreeInclusionProof ==
    /\ \E leaf_id \in LeafIds :
          last' = [Call("inclusion_proof", "t", leaf_id, <<>>, now)
                     EXCEPT !.ret = inclusion_proof(tree, leaf_id)]
    /\ UNCHANGED <<now, ledger, tree, forest, calls, canon, twin, inflight, explorer, scheduler>>

NextTreeApi == ApiAddLeaf \/ TreeInclusionProof

SpecTreeApi == InitTree /\ [][NextTreeApi]_vars

-----------------------------------------------------------------------------
(* Properties of the stand-alone tree (SpecTree) *)

RootHash(t) == get_root_hash(t)[1]

\* leaf i is the first leaf of t, in insertion order, that carries its leaf_id
FirstWithId(t, i) ==
    \A j \in 1..(i - 1) : t.leaves[j].leaf_id # t.leaves[i].leaf_id

DistinctIds(t) == \A i \in 1..Len(t.leaves) : FirstWithId(t, i)

\* leaf i's hash verifies against the root with the proof looked up by its id
RoundTrip(t, i) ==
    LET proof == inclusion_proof(t, t.leaves[i].leaf_id[1])
    IN  /\ proof # None
        /\ verify_inclusion(t.leaves[i].hash, RootHash(t), proof[1])

\* C2 as stated: in a non-empty tree every leaf verifies against the root
\* with the proof that inclusion_proof returns for its leaf_id.
C2_RoundTripEveryLeaf ==
    tree.leaves # <<>> => \A i \in 1..Len(tree.leaves) : RoundTrip(tree, i)

\* C2 amended: in a non-empty tree every leaf that is the first to carry its
\* leaf_id (every leaf, when the ids are unique) verifies against the root
\* with the proof that inclusion_proof returns for its leaf_id.
C2_RoundTripFirstWithId ==
    tree.leaves # <<>> =>
        \A i \in 1..Len(tree.leaves) : FirstWithId(tree, i) => RoundTrip(tree, i)

\* three leaves with distinct ids: the third is paired with itself and has a
\* two-step proof that verifies
C2_Witness ==
    /\ Len(tree.leaves) = 3
    /\ DistinctIds(tree)
    /\ Len(inclusion_proof(tree, tree.leaves[3].leaf_id[1])[1]) = 2
    /\ RoundTrip(tree, 3)
    /\ RoundTrip(tree, 1)

\* the Merkle root of a sequence of hashes, by the definition of the tree:
\* pair left to right, an unpaired last hash with itself, level by level
PairUp(hs) ==
    [j \in 1..((Len(hs) + 1) \div 2) |->
        IF 2 * j <= Len(hs)
        THEN sha256_hex(hs[2 * j - 1] \o hs[2 * j])
        ELSE sha256_hex(hs[2 * j - 1] \o hs[2 * j - 1])]

RECURSIVE MerkleRootOf(_)
MerkleRootOf(hs) == IF Len(hs) = 1 THEN hs[1] ELSE MerkleRootOf(PairUp(hs))

LeafHashes(t) == [i \in 1..Len(t.leaves) |-> t.leaves[i].hash]

\* C7: the root is the Merkle root of the whole current leaf sequence, and
\* get_root_hash is absent exactly when the tree has no leaves.
C7_RootInvariant ==
    /\ (get_root_hash(tree) = None) <=> (tree.leaves = <<>>)
    /\ tree.leaves # <<>> => RootHash(tree) = MerkleRootOf(LeafHashes(tree))

C7_Witness ==
    /\ last.op = "add_leaf"
    /\ Len(tree.leaves) = 3
    /\ RootHash(tree) = MerkleRootOf(LeafHashes(tree))

\* C8: with exactly three leaves A, B, C the root hash is
\* H(H(A || B) || H(C || C)).
C8_OddLeafDuplication ==
    Len(tree.leaves) = 3 =>
        LET A == tree.leaves[1].hash
            B == tree.leaves[2].hash
            C == tree.leaves[3].hash
        IN  RootHash(tree) =
                sha256_hex(sha256_hex(A \o B) \o sha256_hex(C \o C))

C8_Witness ==
    /\ Len(tree.leaves) = 3
    /\ tree.leaves[1].hash # tree.leaves[2].hash
    /\ tree.leaves[2].hash # tree.leaves[3].hash
    /\ tree.leaves[1].hash # tree.leaves[3].hash
    /\ tree.root[1].right[1].left = tree.root[1].right[1].right

\* every hash held by a node below (and including) node
RECURSIVE NodeHashes(_)
NodeHashes(node) ==
    {node.hash}
    \cup (IF node.left = None THEN {} ELSE NodeHashes(node.left[1]))
    \cup (IF node.right = None THEN {} ELSE NodeHashes(node.right[1]))

\* the values a forger may put in place of a hash: any hash of the tree, any
\* leaf hash of a payload, the empty string
TamperValues(t) ==
    NodeHashes(t.root[1])
    \cup {canonical_leaf_hash(p) : p \in TreePayloads}
    \cup {<<>>}

\* C9: given a leaf's valid (leaf_hash, root_hash, proof), verify_inclusion
\* rejects it once leaf_hash is replaced by a different value, or one sibling
\* hash of the proof is replaced by a different value (of any length).
C9_TamperDetection ==
    tree.leaves # <<>> =>
        \A i \in 1..Len(tree.leaves) :
            LET h     == tree.leaves[i].hash
                found == inclusion_proof(tree, tree.leaves[i].leaf_id[1])
                proof == found[1]
            IN  (found # None /\ verify_inclusion(h, RootHash(tree), proof)) =>
                    /\ \A x \in TamperValues(tree) \ {h} :
                           ~verify_inclusion(x, RootHash(tree), proof)
                    /\ \A k \in 1..Len(proof) :
                           \A x \in TamperValues(tree) \ {proof[k][1]} :
                               ~verify_inclusion(h, RootHash(tree),
                                    [proof EXCEPT ![k] = <<x, proof[k][2]>>])

\* a three-leaf tree whose third leaf has a valid two-step proof, and a
\* sibling hash that could be swapped for another hash of the tree
C9_Witness ==
    /\ Len(tree.leaves) = 3
    /\ DistinctIds(tree)
    /\ RoundTrip(tree, 3)
    /\ tree.leaves[1].hash # tree.leaves[2].hash
    /\ ~verify_inclusion(tree.leaves[1].hash, RootHash(tree),
                         inclusion_proof(tree, tree.leaves[3].leaf_id[1])[1])

NewestLeaf == tree.leaves[Len(tree.leaves)]

\* C10 as stated: whenever the payload has a key "digest", whatever its
\* value, the leaf hash add_leaf stores is that value (None and the empty
\* string both have no characters).
C10_DigestAlwaysPassedThrough ==
    (last.op = "add_leaf" /\ HasKey(last.payload, "digest")) =>
        NewestLeaf.hash = GetValue(last.payload, "digest").s

\* C10 amended: when the payload has a key "digest" with a non-empty string
\* value, the leaf hash add_leaf stores is that value and nothing is
\* computed; when the value is the empty string or null, the leaf hash is
\* the SHA-256 of the canonical JSON of the payload without the digest key,
\* as if no digest were declared.
C10_DigestPassThroughUnlessFalsy ==
    (last.op = "add_leaf" /\ HasKey(last.payload, "digest")) =>
        LET declared == GetValue(last.payload, "digest")
        IN  /\ (declared.t = "str" /\ declared.s # <<>>) =>
                   NewestLeaf.hash = declared.s
            /\ (declared.t = "null" \/ declared.s = <<>>) =>
                   NewestLeaf.hash =
                       sha256_hex(canonicalize_jcs(Without(last.payload, "digest")))
            /\ last.payload = PayloadEmpty =>
                   NewestLeaf.hash =
                       <<"sha256(", "{", "\"", "a", "\"", ":", "2", "}", ")">>

C10_Witness ==
    /\ Len(tree.leaves) = 2
    /\ last.op = "add_leaf"
    /\ last.payload = PayloadDeclared
    /\ NewestLeaf.hash = <<"d1">>
    /\ tree.leaves[1].hash = <<"sha256(", "{", "\"", "x", "\"", ":", "1", "}", ")">>

\* the positions of the leaves of t that carry leaf_id
WithId(t, leaf_id) ==
    {i \in 1..Len(t.leaves) : t.leaves[i].leaf_id = Some(leaf_id)}

\* the first of them
FirstIndex(t, leaf_id) ==
    CHOOSE i \in WithId(t, leaf_id) : \A j \in WithId(t, leaf_id) : i <= j

\* levels above the leaves in a tree of n leaves
RECURSIVE Height(_)
Height(n) == IF n <= 1 THEN 0 ELSE 1 + Height((n + 1) \div 2)

\* the path of position i through the levels built over the hashes hs: at
\* each level the hash the node is paired with and the side that hash is on
RECURSIVE PathOf(_, _)
PathOf(hs, i) ==
    IF Len(hs) = 1 THEN <<>>
    ELSE LET sibling ==
                 IF i % 2 = 0 THEN <<hs[i - 1], "L">>
                 ELSE IF i + 1 <= Len(hs) THEN <<hs[i + 1], "R">>
                 ELSE <<hs[i], "R">>
         IN  <<sibling>> \o PathOf(PairUp(hs), (i + 1) \div 2)

\* C23: inclusion_proof returns None exactly when no leaf of the tree
\* carries the leaf_id (so always for the empty tree), it returns the empty
\* proof for the leaf of a single-leaf tree, and it neither raises nor
\* changes the tree.
C23_ProofAbsentOrFound ==
    [][last'.op = "inclusion_proof" =>
          /\ tree' = tree
          /\ ~last'.raised
          /\ (last'.ret = None) <=> (WithId(tree, last'.leaf_id) = {})
          /\ (Len(tree.leaves) = 1 /\ WithId(tree, last'.leaf_id) # {}) =>
                last'.ret = Some(<<>>)]_vars

\* a lookup in a tree of three leaves, none of which carries the id
C23_Witness ==
    /\ last.op = "inclusion_proof"
    /\ last.ret = None
    /\ Len(tree.leaves) = 3
    /\ WithId(tree, last.leaf_id) = {}

\* C24: add_leaf with a leaf_id already in the tree appends one more leaf
\* with that id, and inclusion_proof for an id carried by several leaves
\* returns the path of the first of them, which verifies against the root
\* with the first leaf's hash.
C24_DuplicateIds ==
    [][/\ (last'.op = "add_leaf" /\ WithId(tree, last'.leaf_id) # {}) =>
             /\ Len(tree'.leaves) = Len(tree.leaves) + 1
             /\ SubSeq(tree'.leaves, 1, Len(tree.leaves)) = tree.leaves
             /\ WithId(tree', last'.leaf_id)
                    = WithId(tree, last'.leaf_id) \cup {Len(tree'.leaves)}
       /\ (last'.op = "inclusion_proof"
             /\ Cardinality(WithId(tree, last'.leaf_id)) >= 2) =>
             LET first == FirstIndex(tree, last'.leaf_id)
             IN  /\ last'.ret = Some(PathOf(LeafHashes(tree), first))
                 /\ verify_inclusion(tree.leaves[first].hash, RootHash(tree),
                                     last'.ret[1])]_vars

\* the first and the third of three leaves share an id and differ in hash
C24_Witness ==
    /\ last.op = "inclusion_proof"
    /\ Len(tree.leaves) = 3
    /\ WithId(tree, last.leaf_id) = {1, 3}
    /\ tree.leaves[1].hash # tree.leaves[3].hash
    /\ last.ret = Some(PathOf(LeafHashes(tree), 1))
    /\ ~verify_inclusion(tree.leaves[3].hash, RootHash(tree), last.ret[1])

\* C25: a proof has one (sibling hash, side) pair per level, from the
\* leaf's own sibling up to the child of the root, so its length is the
\* height of the tree whatever the leaf; the side is "R" for a sibling on
\* the right and "L" for one on the left, and a node paired with itself
\* gives its own hash with side "R".
C25_ProofShape ==
    (last.op = "inclusion_proof" /\ last.ret # None) =>
        LET i     == FirstIndex(tree, last.leaf_id)
            proof == last.ret[1]
            hs    == LeafHashes(tree)
        IN  /\ Len(proof) = Height(Len(hs))
            /\ proof = PathOf(hs, i)
            /\ \A k \in 1..Len(proof) : proof[k][2] \in {"L", "R"}
            /\ Len(proof) >= 1 =>
                  proof[1] = IF i % 2 = 0 THEN <<hs[i - 1], "L">>
                             ELSE IF i < Len(hs) THEN <<hs[i + 1], "R">>
                             ELSE <<hs[i], "R">>
            /\ \A j \in 1..Len(hs) :
                  LET other == inclusion_proof(tree, tree.leaves[j].leaf_id[1])
                  IN  other # None /\ Len(other[1]) = Len(proof)

\* the proof of the third of three leaves: itself on the right, then the
\* parent of the first two on the left
C25_Witness ==
    /\ last.op = "inclusion_proof"
    /\ Len(tree.leaves) = 3
    /\ WithId(tree, last.leaf_id) = {3}
    /\ last.ret # None
    /\ Len(last.ret[1]) = 2
    /\ last.ret[1][1] = <<tree.leaves[3].hash, "R">>
    /\ last.ret[1][2] =
           <<sha256_hex(tree.leaves[1].hash \o tree.leaves[2].hash), "L">>

-----------------------------------------------------------------------------
(* The ledger on its own (SpecLedger) *)

Operations == {"doc_normalized", "embedded"}
PayloadText == <<Item("x", Str(<<"a", "U+00E9">>))>>
PayloadBytes == <<Item("x", Bytes(<<"a">>))>>
LedgerData == {PayloadPlain, PayloadText, PayloadBytes}

InitLedgerOnly ==
    /\ now = 0
    /\ ledger = InitLedger
    /\ tree = NewTree("t", 0, 0)
    /\ forest = InitForest
    /\ last = NoCall
    /\ calls = <<>>
    /\ canon = NoCanon
    /\ Idle

\* ledger.record_entry(operation, data)
RecordEntry ==
    /\ Len(ledger.chain) < MaxChain
    /\ \E operation \in Operations, data \in LedgerData, t \in Clock(now) :
          /\ ledger' = record_entry(ledger, operation, data, t)
          /\ now' = t
          /\ last' = [Call("record_entry", operation, "", data, t) EXCEPT
                         !.ret = record_entry_return(ledger, operation, data, t),
                         !.raised = record_entry_raises(ledger, operation, data, t),
                         !.before_hash = ledger.last_hash,
                         !.pre_failure = IF last.raised
                                         THEN Some(last.before_hash) ELSE None]
    /\ UNCHANGED <<tree, forest, calls, canon, twin, inflight, explorer, scheduler>>

NextLedger == RecordEntry

SpecLedger == InitLedgerOnly /\ [][NextLedger]_vars

\* the value of string field k of a stored entry
Field(entry, k) == GetValue(entry, k).s

\* C1: replaying the chain from the start, the first entry's prev is the
\* 64-zero genesis value, every later entry's prev is the stored hash of the
\* record before it, and compute_hash of each stored entry is its stored hash.
C1_ChainIntegrity ==
    \A i \in 1..Len(ledger.chain) :
        /\ Field(ledger.chain[i].entry, "prev") =
               (IF i = 1 THEN ZeroHash ELSE ledger.chain[i - 1].hash)
        /\ compute_hash(ledger.chain[i].entry) = ledger.chain[i].hash

C1_Witness ==
    /\ Len(ledger.chain) = 3
    /\ last.op = "record_entry"
    /\ Field(ledger.chain[1].entry, "prev") = ZeroHash
    /\ Len(ZeroHash) = 64
    /\ Field(ledger.chain[3].entry, "prev") = ledger.chain[2].hash
    /\ ledger.chain[2].hash # ledger.chain[3].hash

\* C12: the chain never gets shorter, and every successful record_entry adds
\* exactly one record at the end, leaves the earlier records as they were and
\* returns the record it stored.
C12_AppendOnly ==
    [][/\ Len(ledger'.chain) >= Len(ledger.chain)
       /\ (last'.op = "record_entry" /\ ~last'.raised) =>
             /\ Len(ledger'.chain) = Len(ledger.chain) + 1
             /\ SubSeq(ledger'.chain, 1, Len(ledger.chain)) = ledger.chain
             /\ last'.ret = Some(ledger'.chain[Len(ledger'.chain)])]_vars

C12_Witness ==
    /\ last.op = "record_entry"
    /\ ~last.raised
    /\ Len(ledger.chain) = 2
    /\ last.ret = Some(ledger.chain[2])
    /\ last.before_hash = ledger.chain[1].hash

\* C13: last_hash is the stored hash of the last record of the chain, and it
\* is the 64-zero genesis value exactly when the chain is empty.
C13_LastHashIsHead ==
    /\ ledger.last_hash =
           (IF ledger.chain = <<>> THEN ZeroHash
            ELSE ledger.chain[Len(ledger.chain)].hash)
    /\ (ledger.last_hash = ZeroHash <=> ledger.chain = <<>>)

C13_Witness ==
    /\ Len(ledger.chain) = 3
    /\ ledger.last_hash = ledger.chain[3].hash
    /\ ledger.last_hash # ledger.chain[2].hash
    /\ ledger.last_hash # ZeroHash

\* C14: a record_entry whose data cannot be canonicalized raises and leaves
\* chain and last_hash as they were, and the next successful record_entry
\* links to the last_hash from before the failure.
C14_FailureLeavesLedger ==
    [][/\ (last'.op = "record_entry" /\ last'.raised) =>
             /\ ledger' = ledger
             /\ last'.ret = None
       /\ (last'.op = "record_entry" /\ ~last'.raised /\ last'.pre_failure # None) =>
             /\ Len(ledger'.chain) = Len(ledger.chain) + 1
             /\ Field(ledger'.chain[Len(ledger'.chain)].entry, "prev")
                    = last'.pre_failure[1]]_vars

C14_Witness ==
    /\ last.op = "record_entry"
    /\ ~last.raised
    /\ last.pre_failure # None
    /\ Len(ledger.chain) = 2
    /\ last.pre_failure[1] = ledger.chain[1].hash
    /\ Field(ledger.chain[2].entry, "prev") = ledger.chain[1].hash

-----------------------------------------------------------------------------
(* A tree written by one thread, one statement of add_leaf at a time, and
   read by another (SpecTreeReaders) *)

ReaderLeafIds == {"l1", "l2"}

InitTreeReaders ==
    /\ now = 0
    /\ ledger = InitLedger
    /\ tree = NewTree("t", 0, 0)
    /\ forest = InitForest
    /\ last = NoCall
    /\ calls = <<>>
    /\ canon = NoCanon
    /\ twin = <<>>
    /\ inflight = "idle"
    /\ explorer = <<>>
    /\ scheduler = <<>>

\* add_leaf: leaf_hash, node, self.leaves.append(node)
WriterAppends ==
    /\ inflight = "idle"
    /\ Len(tree.leaves) < MaxLeaves
    /\ \E leaf_id \in ReaderLeafIds, payload \in ApiTreePayloads :
          tree' = add_leaf_append(tree, leaf_id, payload)
    /\ inflight' = "appended"
    /\ UNCHANGED <<now, ledger, forest, last, calls, canon, twin, explorer, scheduler>>

\* add_leaf: self.last_updated_utc = time.time()
WriterStamps ==
    /\ inflight = "appended"
    /\ \E t \in Clock(now) :
          /\ tree' = add_leaf_stamp(tree, t)
          /\ now' = t
    /\ inflight' = "stamped"
    /\ UNCHANGED <<ledger, forest, last, calls, canon, twin, explorer, scheduler>>

\* add_leaf: self.root = self._build_tree(self.leaves)
WriterRebuilds ==
    /\ inflight = "stamped"
    /\ tree' = add_leaf_rebuild(tree)
    /\ inflight' = "idle"
    /\ UNCHANGED <<now, ledger, forest, last, calls, canon, twin, explorer, scheduler>>

\* the reader's tree.get_root_hash()
ReaderGetRootHash ==
    /\ last' = [Call("get_root_hash", "t", "", <<>>, now)
                  EXCEPT !.ret = get_root_hash(tree),
                         !.seen_leaves = tree.leaves,
                         !.during = inflight]
    /\ UNCHANGED <<now, ledger, tree, forest, calls, canon, twin, inflight, explorer, scheduler>>

\* the reader's tree.inclusion_proof(leaf_id)
ReaderInclusionProof ==
    /\ \E leaf_id \in ReaderLeafIds :
          last' = [Call("inclusion_proof", "t", leaf_id, <<>>, now)
                     EXCEPT !.ret = inclusion_proof(tree, leaf_id),
                            !.seen_leaves = tree.leaves,
                            !.during = inflight]
    /\ UNCHANGED <<now, ledger, tree, forest, calls, canon, twin, inflight, explorer, scheduler>>

NextTreeReaders ==
    \/ WriterAppends
    \/ WriterStamps
    \/ WriterRebuilds
    \/ ReaderGetRootHash
    \/ ReaderInclusionProof

SpecTreeReaders == InitTreeReaders /\ [][NextTreeReaders]_vars

\* the hashes of a sequence of leaf nodes
HashesOf(leaves) == [i \in 1..Len(leaves) |-> leaves[i].hash]

\* the positions in a sequence of leaf nodes that carry leaf_id
Carrying(leaves, leaf_id) ==
    {i \in 1..Len(leaves) : leaves[i].leaf_id = Some(leaf_id)}

\* what get_root_hash and inclusion_proof give for a tree whose root is the
\* Merkle root of exactly these leaves
RootFor(leaves) ==
    IF leaves = <<>> THEN None ELSE Some(MerkleRootOf(HashesOf(leaves)))

ProofFor(leaves, leaf_id) ==
    IF Carrying(leaves, leaf_id) = {} THEN None
    ELSE Some(PathOf(HashesOf(leaves),
                     CHOOSE i \in Carrying(leaves, leaf_id) :
                         \A j \in Carrying(leaves, leaf_id) : i <= j))

\* all but the last
Front(q) == SubSeq(q, 1, Len(q) - 1)

\* C27: a root hash or proof read while no add_leaf is in progress is the
\* one of the leaf sequence the reader sees; a read made between the append
\* of add_leaf and its rebuild of the root sees the new leaf in the leaf
\* sequence together with the root, and the proofs, of the sequence without
\* it.
C27_ReadsAndAddLeaf ==
    /\ (last.op = "get_root_hash" /\ last.during = "idle") =>
          last.ret = RootFor(last.seen_leaves)
    /\ (last.op = "inclusion_proof" /\ last.during = "idle") =>
          last.ret = ProofFor(last.seen_leaves, last.leaf_id)
    /\ (last.op = "get_root_hash" /\ last.during \in {"appended", "stamped"}) =>
          /\ last.seen_leaves # <<>>
          /\ last.ret = RootFor(Front(last.seen_leaves))
    /\ (last.op = "inclusion_proof" /\ last.during \in {"appended", "stamped"}) =>
          /\ last.seen_leaves # <<>>
          /\ last.ret = ProofFor(Front(last.seen_leaves), last.leaf_id)
    /\ inflight \in {"appended", "stamped"} =>
          /\ tree.leaves # <<>>
          /\ get_root_hash(tree) = RootFor(Front(tree.leaves))
    /\ inflight = "idle" => get_root_hash(tree) = RootFor(tree.leaves)

\* the reader saw two leaves and the root of the first alone
C27_Witness ==
    /\ last.op = "get_root_hash"
    /\ last.during = "appended"
    /\ Len(last.seen_leaves) = 2
    /\ last.ret = Some(last.seen_leaves[1].hash)
    /\ last.ret # RootFor(last.seen_leaves)

-----------------------------------------------------------------------------
(* The shared ledger called by several appenders, one statement of
   record_entry at a time (SpecLedgerCallers) *)

Callers == {"c1", "c2"}

\* the operation each caller records
OperationOf(c) == IF c = "c1" THEN "doc_normalized" ELSE "embedded"

CallerData == {PayloadPlain, PayloadText}

\* a caller outside record_entry
NotCalling == [pc |-> "idle", entry |-> <<>>, entry_hash |-> <<>>]

\* variant: callers enter record_entry without waiting for one another
Unserialized(c) == TRUE

\* the caller-side rule: c enters record_entry only when no other call on
\* the ledger is in flight; record_entry itself takes no lock
Serialized(c) == \A d \in Callers \ {c} : inflight[d].pc = "idle"

InitLedgerCallers ==
    /\ now = 0
    /\ ledger = InitLedger
    /\ tree = NewTree("t", 0, 0)
    /\ forest = InitForest
    /\ last = NoCall
    /\ calls = <<>>
    /\ canon = NoCanon
    /\ twin = <<>>
    /\ inflight = [c \in Callers |-> NotCalling]
    /\ explorer = <<>>
    /\ scheduler = <<>>

\* get_ledger().record_entry(operation, data) up to entry_hash =
\* compute_hash(entry): the clock and self.last_hash are read
CallerBuildsEntry(c) ==
    /\ inflight[c].pc = "idle"
    /\ Serialized(c)
    /\ Len(ledger.chain)
          + Cardinality({d \in Callers : inflight[d].pc = "hashed"}) < MaxChain
    /\ \E data \in CallerData, t \in Clock(now) :
          LET entry == Entry(OperationOf(c), t, ledger.last_hash, data)
          IN  /\ inflight' = [inflight EXCEPT ![c] =
                     [pc |-> "hashed", entry |-> entry,
                      entry_hash |-> compute_hash(entry)]]
              /\ now' = t
              /\ last' = Call("record_entry", c, "", data, t)
    /\ UNCHANGED <<ledger, tree, forest, calls, canon, twin, explorer, scheduler>>

\* self.chain.append({"hash": entry_hash, "entry": entry})
CallerAppends(c) ==
    /\ inflight[c].pc = "hashed"
    /\ ledger' = [ledger EXCEPT !.chain =
          Append(@, [hash |-> inflight[c].entry_hash, entry |-> inflight[c].entry])]
    /\ inflight' = [inflight EXCEPT ![c].pc = "appended"]
    /\ UNCHANGED <<now, tree, forest, last, calls, canon, twin, explorer, scheduler>>

\* self.last_hash = entry_hash, and the return
CallerSetsLastHash(c) ==
    /\ inflight[c].pc = "appended"
    /\ ledger' = [ledger EXCEPT !.last_hash = inflight[c].entry_hash]
    /\ inflight' = [inflight EXCEPT ![c] = NotCalling]
    /\ UNCHANGED <<now, tree, forest, last, calls, canon, twin, explorer, scheduler>>

NextLedgerCallers ==
    \E c \in Callers :
        \/ CallerBuildsEntry(c)
        \/ CallerAppends(c)
        \/ CallerSetsLastHash(c)

SpecLedgerCallers == InitLedgerCallers /\ [][NextLedgerCallers]_vars

\* C26: with the callers of one shared ledger serialized so that at most
\* one record_entry is in flight, in every interleaving each record's prev
\* is the hash of the record before it (64 zeros for the first), each
\* stored hash is compute_hash of its entry, and whenever no call is in
\* flight last_hash is the hash of the last record.
C26_SerializedCallers ==
    /\ \A i \in 1..Len(ledger.chain) :
          /\ GetValue(ledger.chain[i].entry, "prev").s =
                 (IF i = 1 THEN ZeroHash ELSE ledger.chain[i - 1].hash)
          /\ ledger.chain[i].hash = compute_hash(ledger.chain[i].entry)
    /\ (\A c \in Callers : inflight[c].pc = "idle") =>
          ledger.last_hash =
              (IF ledger.chain = <<>> THEN ZeroHash
               ELSE ledger.chain[Len(ledger.chain)].hash)

\* three records appended by the two callers in turn, none in flight
C26_Witness ==
    /\ Len(ledger.chain) = 3
    /\ \A c \in Callers : inflight[c].pc = "idle"
    /\ GetValue(ledger.chain[1].entry, "op").s = <<"doc_normalized">>
    /\ GetValue(ledger.chain[2].entry, "op").s = <<"embedded">>
    /\ GetValue(ledger.chain[3].entry, "op").s = <<"doc_normalized">>
    /\ ledger.last_hash = ledger.chain[3].hash

-----------------------------------------------------------------------------
(* The forest (SpecForest) *)

ThreadIds == {"b1", "b2", "b3"}
ForestLeafIds == {"l1"}
ForestPayloads == {PayloadDeclared}
StaleChoices == {0, DefaultStaleSeconds}
MaxTreesChoices == {1, 2}

\* the history of the first HistoryLen calls; it is dropped at the next call
Remember(op, thread) ==
    IF Len(calls) < HistoryLen /\ calls # <<<<"more", "">>>>
    THEN Append(calls, <<op, thread>>)
    ELSE <<<<"more", "">>>>

InitForestOnly ==
    /\ now = 0
    /\ ledger = InitLedger
    /\ tree = NewTree("t", 0, 0)
    /\ \E s \in StaleChoices, m \in MaxTreesChoices : forest = NewForest(s, m)
    /\ last = NoCall
    /\ calls = <<>>
    /\ canon = NoCanon
    /\ Idle

\* forest.add_fossil_to_thread(thread_id, leaf_id, payload), payload drawn
\* from payloads; the call enters the history calls when remember is TRUE
AddFossil(payloads, remember) ==
    \E thread_id \in ThreadIds, leaf_id \in ForestLeafIds, payload \in payloads :
      \E tp \in Clock(now) : \E ta \in Clock(tp) : \E tc \in {tp, ta} :
        LET is_new == thread_id \notin TreeIds(forest.trees)
            p      == _maybe_prune(forest.config, forest.trees, tp)
            raises == canonical_leaf_hash_raises(payload)
        IN  /\ IF is_new THEN TRUE
               ELSE /\ tp = ta /\ tc = ta   \* only add_leaf reads the clock
                    /\ Len(TreeOf(forest.trees, thread_id).leaves) < MaxForestLeaves
            /\ raises => /\ ta = tc           \* add_leaf raises before reading it
                         /\ ~is_new => ta = now
            /\ forest' = [forest EXCEPT !.trees =
                  add_fossil_to_thread(forest, thread_id, leaf_id, payload, tp, tc, ta)]
            /\ now' = ta
            /\ last' = [Call("add_fossil_to_thread", thread_id, leaf_id, payload, tp)
                          EXCEPT !.before = TreeIds(forest.trees),
                                 !.pruned = is_new,
                                 !.stale_keys = IF is_new THEN p.stale_keys ELSE {},
                                 !.dropped = IF is_new THEN p.dropped ELSE {},
                                 !.kept = IF is_new THEN TreeIds(p.trees) ELSE {},
                                 !.raised = raises]
            /\ calls' = IF remember THEN Remember("add_fossil_to_thread", thread_id)
                         ELSE calls
            /\ UNCHANGED <<ledger, tree, canon, twin, inflight, explorer, scheduler>>

\* forest.add_fossil_to_thread(thread_id, leaf_id, payload)
AddFossilToThread == AddFossil(ForestPayloads, TRUE)

\* forest.prune_thread(thread_id); the call enters the history calls when
\* remember is TRUE
Prune(remember) ==
    \E thread_id \in ThreadIds :
        /\ forest' = [forest EXCEPT !.trees = prune_thread(forest, thread_id)]
        /\ last' = [Call("prune_thread", thread_id, "", <<>>, now)
                      EXCEPT !.before = TreeIds(forest.trees),
                             !.raised = prune_thread_raises(forest, thread_id)]
        /\ calls' = IF remember THEN Remember("prune_thread", thread_id) ELSE calls
        /\ UNCHANGED <<now, ledger, tree, canon, twin, inflight, explorer, scheduler>>

\* forest.prune_thread(thread_id)
PruneThread == Prune(TRUE)

NextForest == AddFossilToThread \/ PruneThread

SpecForest == InitForestOnly /\ [][NextForest]_vars

-----------------------------------------------------------------------------
(* The forest with its reads and with payloads that cannot be hashed
   (SpecForestApi) *)

ApiPayloads == ForestPayloads \cup {PayloadBytes}
ApiMaxTrees == {1}

InitForestApi ==
    /\ now = 0
    /\ ledger = InitLedger
    /\ tree = NewTree("t", 0, 0)
    /\ \E s \in StaleChoices, m \in ApiMaxTrees : forest = NewForest(s, m)
    /\ last = NoCall
    /\ calls = <<>>
    /\ canon = NoCanon
    /\ Idle

\* forest.add_fossil_to_thread(thread_id, leaf_id, payload), the payload
\* hashable or not
AddFossilAny == AddFossil(ApiPayloads, FALSE)

\* forest.prune_thread(thread_id), not entered in the history
PruneThreadAny == Prune(FALSE)

\* forest.get_root_hash_for_thread(thread_id)
GetRootHashForThread ==
    \E thread_id \in ThreadIds :
        /\ forest' = [forest EXCEPT !.trees = trees_after_get(@, thread_id, now)]
        /\ last' = [Call("get_root_hash_for_thread", thread_id, "", <<>>, now)
                      EXCEPT !.ret = get_root_hash_for_thread(forest, thread_id)]
        /\ UNCHANGED <<now, ledger, tree, calls, canon, twin, inflight, explorer, scheduler>>

\* forest.get_forest_roots()
GetForestRoots ==
    /\ last' = [Call("get_forest_roots", "", "", <<>>, now)
                  EXCEPT !.ret = get_forest_roots(forest)]
    /\ UNCHANGED <<now, ledger, tree, forest, calls, canon, twin, inflight, explorer, scheduler>>

\* forest.trees[thread_id].get_root_hash()
GetRootHash ==
    \E thread_id \in TreeIds(forest.trees) :
        /\ last' = [Call("get_root_hash", thread_id, "", <<>>, now)
                      EXCEPT !.ret = get_root_hash(TreeOf(forest.trees, thread_id))]
        /\ UNCHANGED <<now, ledger, tree, forest, calls, canon, twin, inflight, explorer, scheduler>>

\* forest.trees[thread_id].inclusion_proof(leaf_id)
InclusionProof ==
    \E thread_id \in TreeIds(forest.trees), leaf_id \in ForestLeafIds :
        /\ last' = [Call("inclusion_proof", thread_id, leaf_id, <<>>, now)
                      EXCEPT !.ret = inclusion_proof(TreeOf(forest.trees, thread_id),
                                                     leaf_id)]
        /\ UNCHANGED <<now, ledger, tree, forest, calls, canon, twin, inflight, explorer, scheduler>>

\* MerkleTree.verify_inclusion(leaf_hash, root_hash, proof) for the first leaf
\* of a branch, its root and its proof
VerifyInclusion ==
    \E thread_id \in TreeIds(forest.trees) :
        LET t == TreeOf(forest.trees, thread_id)
        IN  /\ t.leaves # <<>>
            /\ last' = [Call("verify_inclusion", thread_id, t.leaves[1].leaf_id[1],
                              <<>>, now)
                          EXCEPT !.ret = verify_inclusion(
                                     t.leaves[1].hash, get_root_hash(t)[1],
                                     inclusion_proof(t, t.leaves[1].leaf_id[1])[1])]
            /\ UNCHANGED <<now, ledger, tree, forest, calls, canon, twin, inflight, explorer, scheduler>>

ReadOps ==
    {"get_root_hash_for_thread", "get_forest_roots", "get_root_hash",
     "inclusion_proof", "verify_inclusion"}

NextForestApi ==
    \/ AddFossilAny
    \/ PruneThreadAny
    \/ GetRootHashForThread
    \/ GetForestRoots
    \/ GetRootHash
    \/ InclusionProof
    \/ VerifyInclusion

SpecForestApi == InitForestApi /\ [][NextForestApi]_vars

-----------------------------------------------------------------------------
(* Properties of the forest (SpecForest) *)

AddedTo(thread) == <<"add_fossil_to_thread", thread>>

\* C3: with max_trees = 2 and no branch stale, add_fossil_to_thread for b1,
\* b2, b3 in this order on a new forest leaves exactly the branches b2, b3.
C3_ThirdBranchEvictsFirst ==
    (/\ forest.config.max_trees = 2
     /\ forest.config.stale_seconds = DefaultStaleSeconds
     /\ calls = <<AddedTo("b1"), AddedTo("b2"), AddedTo("b3")>>)
        => TreeIds(forest.trees) = {"b2", "b3"}

\* C4: the forest never holds more than max_trees branches.
C4_HardCap == Len(forest.trees) <= forest.config.max_trees

\* C5: right after a pruning pass the forest holds at most max_trees
\* branches, and exactly max_trees when the capacity step removed a branch.
C5_PruningPassWithinCap ==
    last.pruned =>
        /\ Cardinality(last.kept) <= forest.config.max_trees
        /\ last.dropped # {} => Cardinality(last.kept) = forest.config.max_trees

\* a pruning pass whose capacity step removed a branch
C5_Witness ==
    /\ last.op = "add_fossil_to_thread"
    /\ last.pruned
    /\ last.dropped # {}
    /\ last.stale_keys = {}
    /\ Cardinality(last.before) = forest.config.max_trees + 1
    /\ Cardinality(last.kept) = forest.config.max_trees

\* C6 as stated: with stale_seconds = 0, an add_fossil_to_thread call leaves
\* none of the other branches that were in the forest, whether its own
\* branch is new or not and whatever the clock reads.
C6_AnyWriteEvictsOthers ==
    (forest.config.stale_seconds = 0 /\ last.op = "add_fossil_to_thread") =>
        \A b \in last.before \ {last.thread} : b \notin TreeIds(forest.trees)

\* C6 amended: with stale_seconds = 0, an add_fossil_to_thread call that
\* creates a new branch evicts every branch whose last write is earlier than
\* the clock reading of its pruning pass, while a branch last written at that
\* very reading is not stale; a call on a branch already present evicts
\* nothing.
C6_NewBranchEvictsOlder ==
    [][(forest.config.stale_seconds = 0 /\ last'.op = "add_fossil_to_thread") =>
          IF last'.thread \notin TreeIds(forest.trees)
          THEN \A i \in 1..Len(forest.trees) :
                  /\ forest.trees[i].last_updated_utc < last'.t =>
                        forest.trees[i].tree_id \notin TreeIds(forest'.trees)
                  /\ forest.trees[i].last_updated_utc = last'.t =>
                        forest.trees[i].tree_id \notin last'.stale_keys
          ELSE TreeIds(forest'.trees) = TreeIds(forest.trees)]_vars

\* a new branch was created: one older branch was evicted as stale and one
\* written at the reading of the pruning pass is still there
C6_Witness ==
    /\ forest.config.stale_seconds = 0
    /\ last.op = "add_fossil_to_thread"
    /\ last.pruned
    /\ last.stale_keys # {}
    /\ last.dropped = {}
    /\ (last.before \ last.stale_keys) # {}
    /\ (last.before \ last.stale_keys) \subseteq TreeIds(forest.trees)

\* C16: the staleness step of a pruning pass at clock reading t removes
\* every tree last written before t - stale_seconds and none written at or
\* after it, and no tree left by the pass is older than t - stale_seconds.
C16_StalenessStep ==
    [][last'.pruned =>
          LET cutoff == last'.t - forest.config.stale_seconds
          IN  \A i \in 1..Len(forest.trees) :
                LET tr == forest.trees[i]
                IN  /\ tr.last_updated_utc < cutoff =>
                          /\ tr.tree_id \in last'.stale_keys
                          /\ tr.tree_id \notin TreeIds(forest'.trees)
                    /\ tr.last_updated_utc >= cutoff =>
                          tr.tree_id \notin last'.stale_keys
                    /\ tr.tree_id \in last'.kept =>
                          tr.last_updated_utc >= cutoff]_vars

\* a pass removed one stale branch and kept one written at its clock reading
C16_Witness ==
    /\ last.op = "add_fossil_to_thread"
    /\ last.pruned
    /\ Cardinality(last.stale_keys) = 1
    /\ Cardinality(last.kept) = 1
    /\ last.t > 0
    /\ \A b \in last.kept :
          /\ b \in TreeIds(forest.trees)
          /\ TreeOf(forest.trees, b).last_updated_utc = last.t

\* C17: every tree removed by the capacity step of a pruning pass was last
\* written no later than every tree the pass leaves.
C17_OldestFirst ==
    [][last'.pruned =>
          \A i, j \in 1..Len(forest.trees) :
              (/\ forest.trees[i].tree_id \in last'.dropped
               /\ forest.trees[j].tree_id \in last'.kept)
                  => forest.trees[i].last_updated_utc
                         <= forest.trees[j].last_updated_utc]_vars

\* the capacity step dropped the first branch ever written and kept a later one
C17_Witness ==
    /\ calls = <<AddedTo("b1"), AddedTo("b2"), AddedTo("b3")>>
    /\ last.pruned
    /\ last.stale_keys = {}
    /\ last.dropped = {"b1"}
    /\ last.kept = {"b2"}
    /\ TreeOf(forest.trees, "b2").last_updated_utc >= 1

\* C18: add_fossil_to_thread on a branch already in the forest removes no
\* branch, changes no other tree and appends the new leaf to that branch.
C18_ExistingBranchWrite ==
    [][(/\ last'.op = "add_fossil_to_thread"
        /\ last'.thread \in TreeIds(forest.trees)) =>
          /\ Len(forest'.trees) = Len(forest.trees)
          /\ \A i \in 1..Len(forest.trees) :
                LET old == forest.trees[i]
                    new == forest'.trees[i]
                IN  IF old.tree_id = last'.thread
                    THEN /\ new.tree_id = old.tree_id
                         /\ Len(new.leaves) = Len(old.leaves) + 1
                         /\ SubSeq(new.leaves, 1, Len(old.leaves)) = old.leaves
                         /\ new.leaves[Len(new.leaves)].hash
                                = canonical_leaf_hash(last'.payload)
                         /\ new.leaves[Len(new.leaves)].leaf_id
                                = Some(last'.leaf_id)
                    ELSE new = old]_vars

\* a second leaf was written to a branch while another, stale, branch stayed
C18_Witness ==
    /\ last.op = "add_fossil_to_thread"
    /\ ~last.pruned
    /\ last.thread \in last.before
    /\ Len(TreeOf(forest.trees, last.thread).leaves) = 2
    /\ \E i \in 1..Len(forest.trees) :
          /\ forest.trees[i].tree_id # last.thread
          /\ (now - forest.trees[i].last_updated_utc) > forest.config.stale_seconds

\* branch b has no root and no entry in the snapshot of the forest
Absent(b) ==
    /\ get_root_hash_for_thread(forest, b) = None
    /\ \A r \in get_forest_roots(forest) : r[1] # b

\* branch b holds the leaf of the last call and nothing else
Fresh(b) ==
    /\ b \in TreeIds(forest.trees)
    /\ LET t == TreeOf(forest.trees, b)
       IN  /\ Len(t.leaves) = 1
           /\ t.leaves[1].hash = canonical_leaf_hash(last.payload)
           /\ t.leaves[1].leaf_id = Some(last.leaf_id)
           /\ get_root_hash_for_thread(forest, b) = Some(t.leaves[1].hash)

\* C21: prune_thread(b) never raises, leaves the forest without b and with
\* every other tree as it was, changes nothing when b is not in the forest,
\* and a second prune_thread(b) after it changes nothing.
C21_PruneThread ==
    [][last'.op = "prune_thread" =>
          LET b == last'.thread
          IN  /\ ~last'.raised
              /\ b \notin TreeIds(forest'.trees)
              /\ forest'.config = forest.config
              /\ forest'.trees = SelectSeq(forest.trees, LAMBDA t : t.tree_id # b)
              /\ b \notin TreeIds(forest.trees) => forest' = forest
              /\ prune_thread(forest', b) = forest'.trees
              /\ ~prune_thread_raises(forest', b)]_vars

\* one of two branches was removed and the other is still there
C21_Witness ==
    /\ last.op = "prune_thread"
    /\ ~last.raised
    /\ last.thread \in last.before
    /\ Cardinality(last.before) = 2
    /\ TreeIds(forest.trees) = last.before \ {last.thread}
    /\ \A i \in 1..Len(forest.trees) : forest.trees[i].leaves # <<>>

\* C19: a branch removed by prune_thread or by a pruning pass has no root
\* and no entry in get_forest_roots, and an add_fossil_to_thread with the id
\* of a removed branch makes a tree whose only leaf is the new one.
C19_PruningIsDestructive ==
    /\ last.op = "prune_thread" => Absent(last.thread)
    /\ last.pruned => \A b \in last.stale_keys \cup last.dropped : Absent(b)
    /\ (last.op = "add_fossil_to_thread" /\ last.thread \notin last.before) =>
          Fresh(last.thread)
    /\ \A b \in ThreadIds :
          (/\ last.op = "add_fossil_to_thread"
           /\ last.thread = b
           /\ Len(calls) >= 2
           /\ calls[Len(calls)] = AddedTo(b)
           /\ calls[Len(calls) - 1] = <<"prune_thread", b>>) => Fresh(b)

\* a branch given one leaf, removed, and written again
C19_Witness ==
    /\ calls = <<AddedTo("b1"), <<"prune_thread", "b1">>, AddedTo("b1")>>
    /\ last.thread = "b1"
    /\ last.pruned
    /\ Len(TreeOf(forest.trees, "b1").leaves) = 1
    /\ get_root_hash_for_thread(forest, "b1") # None

\* C15: get_root_hash_for_thread, get_forest_roots, get_root_hash,
\* inclusion_proof and verify_inclusion leave every tree, its root and its
\* last_updated_utc as they were, so a pruning pass run after the read
\* removes the same branches as it would have without the read.
C15_ReadsChangeNothing ==
    [][last'.op \in ReadOps =>
          /\ forest' = forest
          /\ _maybe_prune(forest'.config, forest'.trees, now')
                = _maybe_prune(forest.config, forest.trees, now')]_vars

\* a branch was read while it was the one a pruning pass would remove
C15_Witness ==
    /\ last.op = "get_root_hash_for_thread"
    /\ last.thread \in TreeIds(forest.trees)
    /\ last.ret # None
    /\ Len(forest.trees) = 2
    /\ last.thread \in _maybe_prune(forest.config, forest.trees, now).stale_keys
                          \cup _maybe_prune(forest.config, forest.trees, now).dropped

\* C20: get_forest_roots has exactly one entry for each branch whose root is
\* not None, the entry is the branch's current root hash as
\* get_root_hash_for_thread gives it, and a branch without leaves or outside
\* the forest has no entry.
C20_ForestRoots ==
    last.op = "get_forest_roots" =>
        /\ \A r \in last.ret : r[1] \in TreeIds(forest.trees)
        /\ \A b \in ThreadIds :
              LET entries == {r \in last.ret : r[1] = b}
              IN  IF /\ b \in TreeIds(forest.trees)
                     /\ TreeOf(forest.trees, b).leaves # <<>>
                  THEN /\ Cardinality(entries) = 1
                       /\ \A r \in entries :
                             /\ Some(r[2]) = get_root_hash_for_thread(forest, b)
                             /\ r[2] = MerkleRootOf(
                                           LeafHashes(TreeOf(forest.trees, b)))
                  ELSE entries = {}

\* a snapshot of a forest holding one branch with a leaf and one without
C20_Witness ==
    /\ last.op = "get_forest_roots"
    /\ Len(forest.trees) = 2
    /\ Cardinality(last.ret) = 1
    /\ \E i \in 1..2 : forest.trees[i].leaves = <<>>
    /\ \E i \in 1..2 : Len(forest.trees[i].leaves) = 2

-----------------------------------------------------------------------------
(* Two forests given the same writes at the same clock readings, one of
   them also read (SpecForestTwin) *)

InitForestTwin ==
    /\ now = 0
    /\ ledger = InitLedger
    /\ tree = NewTree("t", 0, 0)
    /\ \E s \in StaleChoices, m \in ApiMaxTrees : forest = NewForest(s, m)
    /\ twin = forest
    /\ last = NoCall
    /\ calls = <<>>
    /\ canon = NoCanon
    /\ inflight = <<>>
    /\ explorer = <<>>
    /\ scheduler = <<>>

\* add_fossil_to_thread(thread_id, leaf_id, payload) on both forests
TwinAddFossilToThread ==
    \E thread_id \in ThreadIds, leaf_id \in ForestLeafIds,
       payload \in ForestPayloads :
      \E tp \in Clock(now) : \E ta \in Clock(tp) : \E tc \in {tp, ta} :
        LET is_new == thread_id \notin TreeIds(forest.trees)
        IN  /\ IF is_new THEN TRUE
               ELSE /\ tp = ta /\ tc = ta
                    /\ Len(TreeOf(forest.trees, thread_id).leaves) < MaxForestLeaves
            /\ thread_id \in TreeIds(twin.trees) =>
                  Len(TreeOf(twin.trees, thread_id).leaves) < MaxForestLeaves
            /\ forest' = [forest EXCEPT !.trees =
                  add_fossil_to_thread(forest, thread_id, leaf_id, payload, tp, tc, ta)]
            /\ twin' = [twin EXCEPT !.trees =
                  add_fossil_to_thread(twin, thread_id, leaf_id, payload, tp, tc, ta)]
            /\ now' = ta
            /\ last' = Call("add_fossil_to_thread", thread_id, leaf_id, payload, tp)
            /\ UNCHANGED <<ledger, tree, calls, canon, inflight, explorer, scheduler>>

\* prune_thread(thread_id) on both forests
TwinPruneThread ==
    \E thread_id \in ThreadIds :
        /\ forest' = [forest EXCEPT !.trees = prune_thread(forest, thread_id)]
        /\ twin' = [twin EXCEPT !.trees = prune_thread(twin, thread_id)]
        /\ last' = Call("prune_thread", thread_id, "", <<>>, now)
        /\ UNCHANGED <<now, ledger, tree, calls, canon, inflight, explorer, scheduler>>

\* get_root_hash_for_thread(thread_id) on the first forest only
TwinGetRootHashForThread ==
    \E thread_id \in ThreadIds :
        /\ forest' = [forest EXCEPT !.trees = trees_after_get(@, thread_id, now)]
        /\ last' = [Call("get_root_hash_for_thread", thread_id, "", <<>>, now)
                      EXCEPT !.ret = get_root_hash_for_thread(forest, thread_id)]
        /\ UNCHANGED <<now, ledger, tree, twin, calls, canon, inflight, explorer, scheduler>>

NextForestTwin ==
    \/ TwinAddFossilToThread
    \/ TwinPruneThread
    \/ TwinGetRootHashForThread

SpecForestTwin == InitForestTwin /\ [][NextForestTwin]_vars

\* C22: two forests with the same configuration that got the same
\* add_fossil_to_thread and prune_thread calls at the same clock readings
\* hold the same branches and give the same get_forest_roots, whatever was
\* read from one of them in between and whether or not trees tie on
\* last_updated_utc.
C22_SameWritesSameSnapshot ==
    /\ twin.config = forest.config
    /\ TreeIds(twin.trees) = TreeIds(forest.trees)
    /\ get_forest_roots(twin) = get_forest_roots(forest)

\* a full forest whose two trees tie on last_updated_utc, so that the next
\* new branch makes the capacity step choose between them; the older of the
\* two by insertion has just been read in the first forest only
C22_Witness ==
    /\ last.op = "get_root_hash_for_thread"
    /\ last.ret # None
    /\ Len(forest.trees) = 2
    /\ last.thread = forest.trees[1].tree_id
    /\ forest.trees[1].last_updated_utc = forest.trees[2].last_updated_utc
    /\ forest.trees[1].last_updated_utc = 1
    /\ now = 1
    /\ forest.config.stale_seconds = DefaultStaleSeconds
    /\ Len(forest.trees[1].leaves) = 2
    /\ Cardinality(get_forest_roots(twin)) = 2

-----------------------------------------------------------------------------
(* The two canonicalizers on the same payload (SpecCanon) *)

CanonKeys == {"a", "x"}
\* one nested dict in its two insertion orders
NestedAX == Obj(<<Item("a", Num("1")), Item("x", Str(<<"U+00E9">>))>>)
NestedXA == Obj(<<Item("x", Str(<<"U+00E9">>)), Item("a", Num("1"))>>)

CanonValues ==
    {Num("1"), Num("2"), Null, Str(<<"a">>), Str(<<"U+00E9">>),
     Str(<<"a", "U+00E9">>), NestedAX, NestedXA}

\* dicts of up to two items, in either insertion order, and the payloads
\* that declare a digest
CanonPayloads ==
    {<<>>}
    \cup {<<Item(k, v)>> : k \in CanonKeys, v \in CanonValues}
    \cup {<<Item(k1, v1), Item(k2, v2)>> :
            <<k1, v1, k2, v2>> \in
                {q \in CanonKeys \X CanonValues \X CanonKeys \X CanonValues :
                    q[1] # q[3]}}
    \cup TreePayloads

InitCanon ==
    /\ now = 0
    /\ ledger = InitLedger
    /\ tree = NewTree("t", 0, 0)
    /\ forest = InitForest
    /\ last = NoCall
    /\ calls = <<>>
    /\ canon \in {Canon(p) : p \in CanonPayloads}
    /\ Idle

\* merkle_forest.canonical_leaf_hash(payload)
CanonLeafHash ==
    /\ canon' = [canon EXCEPT !.leaf_hash = Some(canonical_leaf_hash(canon.payload))]
    /\ UNCHANGED <<now, ledger, tree, forest, last, calls, twin, inflight, explorer, scheduler>>

\* canonical.compute_hash(payload)
CanonComputeHash ==
    /\ canon' = [canon EXCEPT !.hash = Some(compute_hash(canon.payload))]
    /\ UNCHANGED <<now, ledger, tree, forest, last, calls, twin, inflight, explorer, scheduler>>

\* canonical.canonicalize(payload)
CanonCanonicalize ==
    /\ canon' = [canon EXCEPT !.bytes = Some(canonicalize(canon.payload))]
    /\ UNCHANGED <<now, ledger, tree, forest, last, calls, twin, inflight, explorer, scheduler>>

NextCanon == CanonLeafHash \/ CanonComputeHash \/ CanonCanonicalize

SpecCanon == InitCanon /\ [][NextCanon]_vars

\* two values with the same content: for dicts the same keys with the same
\* content under each key, whatever the insertion order
RECURSIVE SameValue(_, _)
SameValue(v, w) ==
    IF v.t = "obj" /\ w.t = "obj"
    THEN /\ {v.o[i].k : i \in 1..Len(v.o)} = {w.o[i].k : i \in 1..Len(w.o)}
         /\ Len(v.o) = Len(w.o)
         /\ \A i \in 1..Len(v.o) :
               SameValue(v.o[i].v, GetValue(w.o, v.o[i].k))
    ELSE v = w

\* the text of a dict with the keys "a" and "x": "a" comes first
TextOfAX(items) ==
    <<"{", "\"", "a", "\"", ":">> \o Dumps(GetValue(items, "a"), FALSE)
        \o <<",", "\"", "x", "\"", ":">> \o Dumps(GetValue(items, "x"), FALSE)
        \o <<"}">>

\* C28: two mappings with the same key/value pairs, nested mappings
\* included, built in different insertion orders, canonicalize to the same
\* bytes, with the keys in ascending order, and have the same compute_hash.
C28_OrderIndependent ==
    (canon.bytes # None /\ canon.hash # None) =>
        /\ \A q \in CanonPayloads :
              SameValue(Obj(canon.payload), Obj(q)) =>
                  /\ canonicalize(q) = canon.bytes[1]
                  /\ compute_hash(q) = canon.hash[1]
        /\ (HasKey(canon.payload, "a") /\ HasKey(canon.payload, "x")) =>
              canon.bytes[1] = TextOfAX(canon.payload)
        /\ \A v \in {NestedAX, NestedXA} :
              Dumps(v, FALSE) =
                  <<"{", "\"", "a", "\"", ":", "1", ",",
                    "\"", "x", "\"", ":", "\"", "U+00E9", "\"", "}">>

\* "x" was inserted before "a", and the value under "a" is itself a dict
\* built with "x" first
C28_Witness ==
    /\ canon.payload = <<Item("x", Num("2")), Item("a", NestedXA)>>
    /\ canon.bytes = Some(canonicalize(<<Item("a", NestedAX), Item("x", Num("2"))>>))
    /\ canon.hash = Some(compute_hash(<<Item("a", NestedAX), Item("x", Num("2"))>>))

\* C11: for a payload without a digest key the leaf hash of the Merkle tree
\* is compute_hash of the same payload.
C11_LeafHashIsComputeHash ==
    (/\ ~HasKey(canon.payload, "digest")
     /\ canon.leaf_hash # None
     /\ canon.hash # None)
        => canon.leaf_hash = canon.hash

-----------------------------------------------------------------------------
(* WorldModelExplorer.build_path, one iteration of its loop at a time
   (SpecExplorer) *)

\* the strings of the world models, in the order Python compares them
NameOrder ==
    <<"absent", "adjacent", "corridor", "door", "entry", "goal", "hall",
      "intel", "lab", "missing", "spawn", "transit", "vault">>

StrRank(name) == CHOOSE i \in 1..Len(NameOrder) : NameOrder[i] = name

\* sorted(set of strings)
SortedNames(names) == SelectSeq(NameOrder, LAMBDA n : n \in names)

DefaultRelation == "adjacent"
DefaultCost == 1
DefaultMaxDepth == 4

WorldEdge(target, relation, cost) ==
    [target |-> target, relation |-> relation, cost |-> cost]

WorldNode(node_id, tags, edges) ==
    [node_id |-> node_id, tags |-> tags, edges |-> edges]

ExplorationStep(from_node, to_node, depth, rationale) ==
    [from_node |-> from_node, to_node |-> to_node, depth |-> depth,
     rationale |-> rationale]

ExplorationPath(start_node, steps, visited_nodes, goals_reached, frontier_exhausted) ==
    [start_node |-> start_node, steps |-> steps, visited_nodes |-> visited_nodes,
     goals_reached |-> goals_reached, frontier_exhausted |-> frontier_exhausted]

\* the fixture of test_world_model_explorer.py
Fixture ==
    <<WorldNode("spawn", {"entry"},
                <<WorldEdge("hall", "corridor", 1), WorldEdge("vault", "corridor", 3)>>),
      WorldNode("hall", {"transit"},
                <<WorldEdge("lab", "door", 1), WorldEdge("vault", "corridor", 1)>>),
      WorldNode("lab", {"intel"}, <<>>),
      WorldNode("vault", {"goal"}, <<>>)>>

\* edges listed out of key order, one of them to a node that is not there
Unsorted ==
    <<WorldNode("spawn", {"entry"},
                <<WorldEdge("vault", "corridor", 3), WorldEdge("missing", "corridor", 0),
                  WorldEdge("hall", "corridor", 1)>>),
      WorldNode("hall", {"transit"},
                <<WorldEdge("vault", "corridor", 1), WorldEdge("lab", "door", 1)>>),
      WorldNode("lab", {"intel", "goal"}, <<>>),
      WorldNode("vault", {"goal"}, <<>>)>>

\* a self-loop, a cycle, the same edge twice, and a node nothing leads to
Cyclic ==
    <<WorldNode("spawn", {"entry"},
                <<WorldEdge("spawn", DefaultRelation, DefaultCost),
                  WorldEdge("hall", "corridor", 1), WorldEdge("hall", "corridor", 1)>>),
      WorldNode("hall", {"transit"},
                <<WorldEdge("spawn", "corridor", 1), WorldEdge("lab", "door", 2)>>),
      WorldNode("lab", {"intel"}, <<WorldEdge("hall", "door", 2)>>),
      WorldNode("vault", {"goal"}, <<>>)>>

\* equal costs: the relation decides, then the target
Ties ==
    <<WorldNode("spawn", {"entry"},
                <<WorldEdge("vault", "door", 1), WorldEdge("lab", "corridor", 1),
                  WorldEdge("hall", "corridor", 1)>>),
      WorldNode("hall", {"transit", "goal"}, <<>>),
      WorldNode("lab", {"intel"}, <<WorldEdge("vault", DefaultRelation, DefaultCost)>>),
      WorldNode("vault", {"goal"}, <<WorldEdge("spawn", DefaultRelation, DefaultCost)>>)>>

\* one node after the other
Chain ==
    <<WorldNode("spawn", {"entry"}, <<WorldEdge("hall", "corridor", 1)>>),
      WorldNode("hall", {"transit"}, <<WorldEdge("lab", "door", 1)>>),
      WorldNode("lab", {"intel"}, <<WorldEdge("vault", "door", 1)>>),
      WorldNode("vault", {"goal"}, <<>>)>>

\* two ways to the same node, the dearer one listed first
Diamond ==
    <<WorldNode("spawn", {"entry"},
                <<WorldEdge("lab", "corridor", 2), WorldEdge("hall", "corridor", 1)>>),
      WorldNode("hall", {"transit"}, <<WorldEdge("vault", "corridor", 2)>>),
      WorldNode("lab", {"intel"},
                <<WorldEdge("vault", "corridor", 1), WorldEdge("hall", "corridor", 1)>>),
      WorldNode("vault", {"goal"}, <<WorldEdge("lab", "door", 1)>>)>>

Worlds == {Fixture, Unsorted, Cyclic, Ties, Chain, Diamond}

StartNodes == {"spawn", "hall", "lab", "vault", "missing"}

MaxDepths == {-1, 0, 1, 2, DefaultMaxDepth}

GoalTagSets == {{}, {"goal"}, {"intel", "goal"}, {"transit", "intel"}, {"absent"}}

\* self.nodes = {n.node_id: n for n in world_nodes}
NodeIds(world_nodes) == {world_nodes[i].node_id : i \in 1..Len(world_nodes)}

NodesOf(world_nodes) ==
    [id \in NodeIds(world_nodes) |->
        world_nodes[CHOOSE i \in 1..Len(world_nodes) :
                        /\ world_nodes[i].node_id = id
                        /\ \A j \in 1..Len(world_nodes) :
                               world_nodes[j].node_id = id => j <= i]]

\* the sort key (e.cost, e.relation, e.target), compared as tuples
EdgeLess(e, f) ==
    \/ e.cost < f.cost
    \/ e.cost = f.cost /\ StrRank(e.relation) < StrRank(f.relation)
    \/ e.cost = f.cost /\ e.relation = f.relation
         /\ StrRank(e.target) < StrRank(f.target)

\* the place of edges[i] after a stable sort: behind every edge with a
\* smaller key and every earlier edge with the same key
SortedPlace(edges, i) ==
    1 + Cardinality({j \in 1..Len(edges) :
                        \/ EdgeLess(edges[j], edges[i])
                        \/ ~EdgeLess(edges[i], edges[j]) /\ j < i})

\* variant: the edges are expanded in the order they are listed
listed_edges(edges) == edges

\* WorldModelExplorer._sorted_edges: sorted(edges, key=...), a stable sort
_sorted_edges(edges) ==
    [r \in 1..Len(edges) |->
        edges[CHOOSE i \in 1..Len(edges) : SortedPlace(edges, i) = r]]

\* WorldModelExplorer._build_rationale
_build_rationale(node, depth, goal_tags) ==
    IF goal_tags \cap node.tags # {}
    THEN <<"Goal surface reached (">> \o SortedNames(goal_tags \cap node.tags)
            \o <<") at depth ", depth, ".">>
    ELSE <<"Coverage expansion at depth ", depth,
           " via deterministic breadth-first traversal.">>

\* variant: the loop is left when any goal tag has been seen
goals_any(goals_reached, goal_tags) == goals_reached # {}

\* goals_reached == goal_tags and goal_tags
goals_complete(goals_reached, goal_tags) ==
    goals_reached = goal_tags /\ goal_tags # {}

\* variant: a popped node is visited whether or not it was visited before
never_seen(node_id, seen) == FALSE

\* if node_id in seen: continue
already_seen(node_id, seen) == node_id \in seen

\* variant: a node is left unexpanded only beyond max_depth
beyond_max_depth(depth, max_depth) == depth > max_depth

\* if depth >= max_depth
at_max_depth(depth, max_depth) == depth >= max_depth

\* the entries the for loop appends to the queue
Expansion(nodes, node, seen, depth) ==
    LET edges == _sorted_edges(node.edges)
        kept  == SelectSeq(edges, LAMBDA e : e.target \in DOMAIN nodes /\ e.target \notin seen)
    IN  [i \in 1..Len(kept) |-> <<kept[i].target, depth + 1, Some(node.node_id)>>]

NoRun == <<>>

\* variant: an unknown start node is taken into the loop
build_path_accepts(nodes, start_node) == FALSE

\* if start_node not in self.nodes: raise ValueError
build_path_raises(nodes, start_node) == start_node \notin DOMAIN nodes

InitExplorer ==
    /\ now = 0
    /\ ledger = InitLedger
    /\ tree = NewTree("t", 0, 0)
    /\ forest = InitForest
    /\ last = NoCall
    /\ calls = <<>>
    /\ canon = NoCanon
    /\ twin = <<>>
    /\ inflight = <<>>
    /\ explorer = NoRun
    /\ scheduler = <<>>

\* build_path up to the while loop
BuildPath ==
    /\ explorer = NoRun
    /\ \E world_nodes \in Worlds, start_node \in StartNodes,
          max_depth \in MaxDepths, goal_tags \in GoalTagSets :
          LET nodes == NodesOf(world_nodes)
          IN  explorer' =
                [nodes |-> nodes, start_node |-> start_node,
                 max_depth |-> max_depth, goal_tags |-> goal_tags,
                 pc |-> IF build_path_raises(nodes, start_node) THEN "raised" ELSE "loop",
                 raised |-> IF build_path_raises(nodes, start_node) THEN "ValueError" ELSE "",
                 queue |-> IF build_path_raises(nodes, start_node) THEN <<>>
                           ELSE <<<<start_node, 0, None>>>>,
                 seen |-> {}, visited_nodes |-> <<>>, steps |-> <<>>,
                 goals_reached |-> {}, frontier_exhausted |-> TRUE,
                 iterations |-> 0, ret |-> None]
    /\ UNCHANGED <<now, ledger, tree, forest, last, calls, canon, twin, inflight, scheduler>>

\* an iteration that pops a node already seen: continue
LoopSkipsSeen ==
    /\ explorer # NoRun
    /\ explorer.pc = "loop"
    /\ explorer.queue # <<>>
    /\ already_seen(Head(explorer.queue)[1], explorer.seen)
    /\ explorer' = [explorer EXCEPT !.queue = Tail(@), !.iterations = @ + 1]
    /\ UNCHANGED <<now, ledger, tree, forest, last, calls, canon, twin, inflight, scheduler>>

\* an iteration that visits the node it pops
LoopVisits ==
    /\ explorer # NoRun
    /\ explorer.pc = "loop"
    /\ explorer.queue # <<>>
    /\ ~already_seen(Head(explorer.queue)[1], explorer.seen)
    /\ LET node_id   == Head(explorer.queue)[1]
           depth     == Head(explorer.queue)[2]
           from_node == Head(explorer.queue)[3]
           queue     == Tail(explorer.queue)
           seen      == explorer.seen \cup {node_id}
           node      == explorer.nodes[node_id]
           goal_tags == explorer.goal_tags
           goals_reached == explorer.goals_reached \cup (goal_tags \cap node.tags)
           step      == ExplorationStep(from_node, node_id, depth,
                                        _build_rationale(node, depth, goal_tags))
           visited   == [explorer EXCEPT !.queue = queue,
                                         !.seen = seen,
                                         !.visited_nodes = Append(@, node_id),
                                         !.goals_reached = goals_reached,
                                         !.steps = Append(@, step),
                                         !.iterations = @ + 1]
       IN  explorer' =
             IF goals_complete(goals_reached, goal_tags)
             THEN [visited EXCEPT !.pc = "break"]
             ELSE IF at_max_depth(depth, explorer.max_depth)
             THEN [visited EXCEPT !.frontier_exhausted = FALSE]
             ELSE [visited EXCEPT
                     !.queue = queue \o Expansion(explorer.nodes, node, seen, depth)]
    /\ UNCHANGED <<now, ledger, tree, forest, last, calls, canon, twin, inflight, scheduler>>

\* the loop is over: return ExplorationPath(...)
Returns ==
    /\ explorer # NoRun
    /\ \/ explorer.pc = "break"
       \/ explorer.pc = "loop" /\ explorer.queue = <<>>
    /\ explorer' =
         [explorer EXCEPT
            !.pc = "returned",
            !.ret = Some(ExplorationPath(explorer.start_node, explorer.steps,
                                         explorer.visited_nodes,
                                         SortedNames(explorer.goals_reached),
                                         explorer.frontier_exhausted))]
    /\ UNCHANGED <<now, ledger, tree, forest, last, calls, canon, twin, inflight, scheduler>>

NextExplorer ==
    \/ BuildPath
    \/ LoopSkipsSeen
    \/ LoopVisits
    \/ Returns

SpecExplorer == InitExplorer /\ [][NextExplorer]_vars

\* a call that has started runs on: each statement of the loop, and the
\* return, is taken when it is the next one
SpecExplorerLive ==
    /\ InitExplorer
    /\ [][NextExplorer]_vars
    /\ WF_vars(LoopSkipsSeen)
    /\ WF_vars(LoopVisits)
    /\ WF_vars(Returns)

Returned == explorer # NoRun /\ explorer.pc = "returned"

\* every sort key there is, smallest first
MaxCost == 3

KeysInOrder ==
    LET n == Len(NameOrder)
    IN  [k \in 1..((MaxCost + 1) * n * n) |->
            WorldEdge(NameOrder[((k - 1) % n) + 1],
                      NameOrder[(((k - 1) \div n) % n) + 1],
                      (k - 1) \div (n * n))]

\* the nodes a node's edges lead to, by ascending key
TargetsByKey(node) ==
    LET keys == SelectSeq(KeysInOrder,
                          LAMBDA k : \E i \in 1..Len(node.edges) : node.edges[i] = k)
    IN  [i \in 1..Len(keys) |-> keys[i].target]

Range(q) == {q[i] : i \in 1..Len(q)}

\* q, then the elements of r that are known and new, each once
RECURSIVE Discover(_, _, _)
Discover(q, r, known) ==
    IF r = <<>> THEN q
    ELSE IF Head(r) \in known /\ Head(r) \notin Range(q)
         THEN Discover(Append(q, Head(r)), Tail(r), known)
         ELSE Discover(q, Tail(r), known)

\* the breadth-first order, level by level: order[1..done] is everything
\* above the level order[done+1..] that is expanded next
RECURSIVE BreadthFirst(_, _, _, _, _)
BreadthFirst(nodes, order, done, depth, max_depth) ==
    IF depth >= max_depth \/ done = Len(order) THEN order
    ELSE LET level == SubSeq(order, done + 1, Len(order))
             RECURSIVE Grow(_, _)
             Grow(q, i) ==
                 IF i > Len(level) THEN q
                 ELSE Grow(Discover(q, TargetsByKey(nodes[level[i]]), DOMAIN nodes), i + 1)
         IN  BreadthFirst(nodes, Grow(order, 1), Len(order), depth + 1, max_depth)

BfsOrder(nodes, start_node, max_depth) ==
    BreadthFirst(nodes, <<start_node>>, 0, 0, max_depth)

\* the goal tags carried by the first n of these nodes
TagsFound(nodes, order, n, goal_tags) ==
    goal_tags \cap UNION {nodes[order[i]].tags : i \in 1..n}

\* C29: without goal tags build_path returns the nodes in breadth-first
\* order from the start node, each node's edges taken by ascending (cost,
\* relation, target) and edges to unknown nodes skipped; with or without goal
\* tags no node is listed twice, every listed node is known, and the list is
\* the beginning of that order, which the graph, the start node and
\* max_depth determine.
C29_BreadthFirstOrder ==
    Returned =>
        LET path  == explorer.ret[1]
            order == BfsOrder(explorer.nodes, explorer.start_node, explorer.max_depth)
            v     == path.visited_nodes
        IN  /\ \A i, j \in 1..Len(v) : v[i] = v[j] => i = j
            /\ Range(v) \subseteq DOMAIN explorer.nodes
            /\ Len(v) <= Len(order)
            /\ v = SubSeq(order, 1, Len(v))
            /\ explorer.goal_tags = {} => v = order

\* the test's path, and a world where the listed order of the edges, an
\* unknown target and a second way to a node all matter
C29_Witness ==
    /\ Returned
    /\ explorer.goal_tags = {}
    /\ explorer.max_depth = DefaultMaxDepth
    /\ explorer.start_node = "spawn"
    /\ explorer.nodes = NodesOf(Unsorted)
    /\ explorer.ret[1].visited_nodes = <<"spawn", "hall", "vault", "lab">>
    /\ explorer.iterations > 4

\* C30: with goal tags, the visited nodes are the breadth-first order cut
\* after the first node at which every goal tag has been seen (the whole
\* order if there is none): that node is the last one visited, and
\* goals_reached is the sorted list of the goal tags carried by the visited
\* nodes.
C30_StopsAtGoal ==
    (Returned /\ explorer.goal_tags # {}) =>
        LET path  == explorer.ret[1]
            nodes == explorer.nodes
            goals == explorer.goal_tags
            order == BfsOrder(nodes, explorer.start_node, explorer.max_depth)
            v     == path.visited_nodes
            full  == {n \in 1..Len(order) : TagsFound(nodes, order, n, goals) = goals}
        IN  /\ full # {} => /\ Len(v) \in full
                            /\ \A n \in full : Len(v) <= n
            /\ full = {} => v = order
            /\ v = SubSeq(order, 1, Len(v))
            /\ path.goals_reached = SortedNames(TagsFound(nodes, v, Len(v), goals))

\* two goal tags, found on different nodes, with a node left unvisited
C30_Witness ==
    /\ Returned
    /\ explorer.goal_tags = {"transit", "intel"}
    /\ explorer.nodes = NodesOf(Diamond)
    /\ explorer.start_node = "spawn"
    /\ explorer.max_depth = DefaultMaxDepth
    /\ explorer.ret[1].visited_nodes = <<"spawn", "hall", "lab">>
    /\ explorer.ret[1].goals_reached = <<"intel", "transit">>

\* C31: a build_path call whose start node is not in the world model raises
\* ValueError with nothing visited, no step recorded and no path returned,
\* and it is the only call that raises.
C31_UnknownStartRaises ==
    explorer # NoRun =>
        /\ explorer.start_node \notin DOMAIN explorer.nodes =>
              /\ explorer.pc = "raised"
              /\ explorer.raised = "ValueError"
              /\ explorer.visited_nodes = <<>>
              /\ explorer.steps = <<>>
              /\ explorer.seen = {}
              /\ explorer.ret = None
        /\ explorer.pc = "raised" => explorer.start_node \notin DOMAIN explorer.nodes

C31_Witness ==
    /\ explorer # NoRun
    /\ explorer.start_node = "missing"
    /\ explorer.nodes = NodesOf(Fixture)
    /\ explorer.pc = "raised"

\* the known nodes one edge away from a node of the set
Neighbours(nodes, set) ==
    {id \in DOMAIN nodes :
        \E n \in set : \E i \in 1..Len(nodes[n].edges) : nodes[n].edges[i].target = id}

\* the nodes that can be reached from the nodes of the set
RECURSIVE ReachableFrom(_, _)
ReachableFrom(nodes, set) ==
    IF Neighbours(nodes, set) \subseteq set THEN set
    ELSE ReachableFrom(nodes, set \cup Neighbours(nodes, set))

\* C36: a returned path with frontier_exhausted true has visited every node
\* that can be reached from the start node; a traversal that stopped with
\* reachable nodes unvisited reports false.
C36_FrontierExhausted ==
    Returned =>
        (explorer.ret[1].frontier_exhausted =>
            Range(explorer.ret[1].visited_nodes)
                = ReachableFrom(explorer.nodes, {explorer.start_node}))

\* the number of edges on a shortest way from the nodes of the frontier,
\* which are d edges from the start, to a node that can be reached
RECURSIVE HopsFrom(_, _, _, _, _)
HopsFrom(nodes, frontier, done, d, target) ==
    IF target \in frontier THEN d
    ELSE HopsFrom(nodes, Neighbours(nodes, frontier) \ (done \cup frontier),
                  done \cup frontier, d + 1, target)

Hops(nodes, start_node, target) == HopsFrom(nodes, {start_node}, {}, 0, target)

\* the step that visited a node
StepOf(steps, node_id) == steps[CHOOSE i \in 1..Len(steps) : steps[i].to_node = node_id]

\* each step goes to a reachable node, at its hop distance from the start,
\* from a visited node one hop nearer that is nearer than max_depth
StepsAtHopDistance ==
    \A i \in 1..Len(explorer.steps) :
        LET step == explorer.steps[i]
        IN  /\ step.to_node = explorer.visited_nodes[i]
            /\ step.to_node \in ReachableFrom(explorer.nodes, {explorer.start_node})
            /\ step.depth = Hops(explorer.nodes, explorer.start_node, step.to_node)
            /\ step.from_node = None <=> i = 1
            /\ step.from_node # None =>
                  /\ step.from_node[1] \in Range(SubSeq(explorer.visited_nodes, 1, i - 1))
                  /\ StepOf(explorer.steps, step.from_node[1]).depth = step.depth - 1
                  /\ step.depth - 1 < explorer.max_depth

\* C37 as stated: every step has depth at most max_depth, at the hop
\* distance of its node.
C37_DepthAtMostMaxDepth ==
    (explorer # NoRun /\ explorer.pc # "raised") =>
        /\ StepsAtHopDistance
        /\ \A i \in 1..Len(explorer.steps) : explorer.steps[i].depth <= explorer.max_depth

\* C37: the depth of every step is the shortest hop distance of its node
\* from the start node; with max_depth >= 0 it is at most max_depth, and
\* with a negative max_depth the start node alone is visited, at depth 0; a
\* node whose depth is max_depth or more is visited and not expanded, and a
\* traversal that did not stop on the goal tags has visited every node
\* within max_depth hops.
C37_DepthIsHopDistance ==
    (explorer # NoRun /\ explorer.pc # "raised") =>
        /\ StepsAtHopDistance
        /\ \A i \in 1..Len(explorer.steps) :
              /\ explorer.max_depth >= 0 => explorer.steps[i].depth <= explorer.max_depth
              /\ explorer.max_depth < 0 => explorer.steps[i].depth = 0
        /\ (Returned /\ ~goals_complete(explorer.goals_reached, explorer.goal_tags)) =>
              Range(explorer.visited_nodes) =
                {id \in ReachableFrom(explorer.nodes, {explorer.start_node}) :
                    \/ id = explorer.start_node
                    \/ Hops(explorer.nodes, explorer.start_node, id) <= explorer.max_depth}

\* the chain cut at two hops: lab is visited at depth 2, vault is not
C37_Witness ==
    /\ Returned
    /\ explorer.nodes = NodesOf(Chain)
    /\ explorer.start_node = "spawn"
    /\ explorer.max_depth = 2
    /\ explorer.ret[1].visited_nodes = <<"spawn", "hall", "lab">>
    /\ explorer.ret[1].steps[3].depth = 2
    /\ explorer.ret[1].steps[3].from_node = Some("hall")

InLoop == explorer # NoRun /\ explorer.pc = "loop"

Ended == explorer # NoRun /\ explorer.pc \in {"returned", "raised"}

\* C38 as stated: the work queue of every call eventually empties.
C38_QueueEmpties == InLoop ~> (explorer # NoRun /\ explorer.queue = <<>>)

\* C38: every call of build_path ends, on graphs with cycles, self-loops and
\* duplicate edges too: the loop is left because the work queue is empty or
\* because the goal tags are complete, in which case entries may be left in
\* the queue; the number of steps never exceeds the number of nodes.
C38_Terminates ==
    /\ [](explorer # NoRun =>
            /\ Len(explorer.steps) <= Cardinality(DOMAIN explorer.nodes)
            /\ Returned =>
                  \/ explorer.queue = <<>>
                  \/ goals_complete(explorer.goals_reached, explorer.goal_tags))
    /\ (explorer # NoRun) ~> Ended

\* a finished traversal of the graph with the self-loop, the cycle and the
\* doubled edge, in which entries were popped and skipped
C38_Witness ==
    /\ Returned
    /\ explorer.nodes = NodesOf(Cyclic)
    /\ explorer.start_node = "spawn"
    /\ explorer.max_depth = DefaultMaxDepth
    /\ explorer.goal_tags = {}
    /\ explorer.queue = <<>>
    /\ explorer.iterations > Len(explorer.steps)
    /\ Len(explorer.steps) = 3

-----------------------------------------------------------------------------
(* MerkleForest and MerkleTree, further properties *)

\* C32: an add_fossil_to_thread that raises leaves the forest as it was, with
\* no branch pruned and no tree without leaves, so that every tree of the
\* forest has a leaf.
C32_FailureLeavesForest ==
    [][(last'.op = "add_fossil_to_thread" /\ last'.raised /\ last' # last) =>
          /\ forest'.trees = forest.trees
          /\ \A i \in 1..Len(forest'.trees) : forest'.trees[i].leaves # <<>>]_vars

(* Two trees side by side: tree and, in twin, a second MerkleTree
   (SpecTreePair) *)

PairMaxLeaves == 4

PairLeafIds == {"l1"}

InitTreePair ==
    /\ now = 0
    /\ ledger = InitLedger
    /\ tree = NewTree("t", 0, 0)
    /\ forest = InitForest
    /\ last = NoCall
    /\ calls = <<>>
    /\ canon = NoCanon
    /\ twin = NewTree("u", 0, 0)
    /\ inflight = <<>>
    /\ explorer = <<>>
    /\ scheduler = <<>>

\* tree.add_leaf(leaf_id, payload) on the first tree
PairAddLeaf ==
    /\ Len(tree.leaves) < PairMaxLeaves
    /\ \E leaf_id \in PairLeafIds, payload \in ApiTreePayloads, t \in Clock(now) :
          /\ tree' = add_leaf(tree, leaf_id, payload, t)
          /\ now' = t
          /\ last' = Call("add_leaf", "t", leaf_id, payload, t)
    /\ UNCHANGED <<ledger, forest, calls, canon, twin, inflight, explorer, scheduler>>

\* tree.add_leaf(leaf_id, payload) on the second tree
PairAddLeafTwin ==
    /\ Len(twin.leaves) < PairMaxLeaves
    /\ \E leaf_id \in PairLeafIds, payload \in ApiTreePayloads, t \in Clock(now) :
          /\ twin' = add_leaf(twin, leaf_id, payload, t)
          /\ now' = t
          /\ last' = Call("add_leaf", "u", leaf_id, payload, t)
    /\ UNCHANGED <<ledger, tree, forest, calls, canon, inflight, explorer, scheduler>>

NextTreePair == PairAddLeaf \/ PairAddLeafTwin

SpecTreePair == InitTreePair /\ [][NextTreePair]_vars

\* C33: two trees whose sequences of leaf hashes differ have different root
\* hashes.
C33_RootIdentifiesLeaves ==
    LeafHashes(tree) # LeafHashes(twin) => get_root_hash(tree) # get_root_hash(twin)

(* A tree and a verifier that is handed hashes and proofs (SpecTreeVerify) *)

\* MerkleTree.verify_inclusion(h, tree.get_root_hash(), p), with h the hash
\* of any node of the tree and p a proof of the tree or the upper part of one
TreeVerifyInclusion ==
    /\ tree.root # None
    /\ \E h \in NodeHashes(tree.root[1]), leaf_id \in LeafIds :
          /\ inclusion_proof(tree, leaf_id) # None
          /\ LET proof == inclusion_proof(tree, leaf_id)[1]
             IN  \E k \in 0..Len(proof) :
                   LET upper == SubSeq(proof, k + 1, Len(proof))
                   IN  last' = [Call("verify_inclusion", "t", leaf_id, upper, now)
                                  EXCEPT !.ret = verify_inclusion(h, get_root_hash(tree)[1], upper),
                                         !.before_hash = h,
                                         !.seen_leaves = tree.leaves]
    /\ UNCHANGED <<now, ledger, tree, forest, calls, canon, twin, inflight, explorer, scheduler>>

NextTreeVerify == ApiAddLeaf \/ TreeVerifyInclusion

SpecTreeVerify == InitTree /\ [][NextTreeVerify]_vars

\* C34: verify_inclusion against the root of a tree accepts a hash only if it
\* is the hash of one of the leaves of the tree.
C34_ProofSoundness ==
    (last.op = "verify_inclusion" /\ last.ret = TRUE) =>
        \E i \in 1..Len(last.seen_leaves) : last.seen_leaves[i].hash = last.before_hash

\* C35: each add_leaf that succeeds appends exactly one leaf, with the id
\* given and the hash of the payload, behind the leaves there were, which
\* keep their ids, hashes and places; it sets last_updated to the clock
\* reading of the call and leaves created_at alone; last_updated is never
\* earlier than created_at.
C35_LeavesAppendOnly ==
    [][/\ tree'.created_at_utc = tree.created_at_utc
       /\ tree'.created_at_utc <= tree'.last_updated_utc
       /\ Len(tree'.leaves) >= Len(tree.leaves)
       /\ SubSeq(tree'.leaves, 1, Len(tree.leaves)) = tree.leaves
       /\ tree' # tree =>
             /\ last'.op = "add_leaf"
             /\ Len(tree'.leaves) = Len(tree.leaves) + 1
             /\ tree'.leaves[Len(tree'.leaves)] =
                    LeafNode(canonical_leaf_hash(last'.payload), last'.leaf_id)
       /\ (last'.op = "add_leaf" /\ last' # last) =>
             /\ Len(tree'.leaves) = Len(tree.leaves) + 1
             /\ tree'.last_updated_utc = now'
             /\ tree'.last_updated_utc = last'.t
             /\ tree'.last_updated_utc >= tree.last_updated_utc]_vars

\* three leaves added at three clock readings, the last one later than the
\* creation of the tree
C35_Witness ==
    /\ last.op = "add_leaf"
    /\ Len(tree.leaves) = 3
    /\ tree.leaves[1].hash # tree.leaves[3].hash
    /\ tree.created_at_utc = 0
    /\ tree.last_updated_utc = MaxTime
    /\ now = MaxTime

-----------------------------------------------------------------------------
(* TrainingScheduler (mlops_unity_pipeline.py): run_forever, run_pending and
   the jobs they start (SpecScheduler).  Time is counted in ticks; a cron
   expression is the period, in ticks, at whose multiples it fires. *)

SchedMaxTime == 3

\* poll_interval_seconds, in ticks
PollInterval == 1

\* TrainingSchedule(schedule_id, cron_expression, asset_specs, enabled)
TrainingSchedule(schedule_id, cron_expression, asset_specs, enabled) ==
    [schedule_id |-> schedule_id, cron_expression |-> cron_expression,
     asset_specs |-> asset_specs, enabled |-> enabled]

\* the schedules added before run_forever starts, in the order of add_schedule
ScheduleLists ==
    {<<TrainingSchedule("hourly", 1, <<"agent">>, TRUE)>>,
     <<TrainingSchedule("hourly", 1, <<"agent">>, TRUE),
       TrainingSchedule("nightly", 2, <<"agent", "drone">>, TRUE)>>,
     <<TrainingSchedule("nightly", 2, <<"agent", "drone">>, TRUE),
       TrainingSchedule("paused", 1, <<"agent">>, FALSE)>>}

\* croniter(cron_expression, base).get_next(): the first firing time after base
_compute_next_run(schedule, base) ==
    ((base \div schedule.cron_expression) + 1) * schedule.cron_expression

\* TrainingJob.job_id: schedule_id, asset_id and the time of the pass
JobId(schedule_id, asset_id, time) == <<schedule_id, asset_id, time>>

\* the schedules of a pass that fire: enabled, and due at the time of the pass
Due(schedules, next_run_at, time) ==
    SelectSeq(schedules, LAMBDA sch : sch.enabled /\ time >= next_run_at[sch.schedule_id])

\* the tasks run_pending creates for the schedules that fire, in order
RECURSIVE TasksFor(_, _)
TasksFor(due, time) ==
    IF due = <<>> THEN <<>>
    ELSE [i \in 1..Len(Head(due).asset_specs) |->
            [job_id |-> JobId(Head(due).schedule_id, Head(due).asset_specs[i], time),
             schedule_id |-> Head(due).schedule_id,
             status |-> "running"]]
         \o TasksFor(Tail(due), time)

InitScheduler ==
    /\ now = 0
    /\ ledger = InitLedger
    /\ tree = NewTree("t", 0, 0)
    /\ forest = InitForest
    /\ last = NoCall
    /\ calls = <<>>
    /\ canon = NoCanon
    /\ twin = <<>>
    /\ inflight = <<>>
    /\ explorer = <<>>
    /\ \E schedules \in ScheduleLists :
          scheduler =
            [schedules   |-> schedules,
             next_run_at |-> [id \in {schedules[i].schedule_id : i \in 1..Len(schedules)} |->
                                _compute_next_run(
                                    schedules[CHOOSE i \in 1..Len(schedules) :
                                                 schedules[i].schedule_id = id], 0)],
             pc          |-> "polling",
             tasks       |-> <<>>,
             finished    |-> <<>>,
             fired       |-> {},
             sleep_until |-> 0,
             passes      |-> 0]

\* run_pending up to the await: the tasks of the schedules that are due are
\* created and their next run times advanced; with no task run_pending
\* returns and run_forever sleeps
RunPending ==
    /\ scheduler.pc = "polling"
    /\ LET due   == Due(scheduler.schedules, scheduler.next_run_at, now)
           ids   == {due[i].schedule_id : i \in 1..Len(due)}
           tasks == TasksFor(due, now)
       IN  scheduler' =
             [scheduler EXCEPT
                !.tasks = tasks,
                !.finished = @ \o scheduler.tasks,
                !.fired = @ \cup {<<id, now>> : id \in ids},
                !.next_run_at =
                    [id \in DOMAIN @ |->
                        IF id \in ids
                        THEN _compute_next_run(
                                 due[CHOOSE i \in 1..Len(due) : due[i].schedule_id = id], now)
                        ELSE @[id]],
                !.pc = IF tasks = <<>> THEN "sleeping" ELSE "awaiting",
                !.sleep_until = now + PollInterval,
                !.passes = @ + 1]
    /\ UNCHANGED <<now, ledger, tree, forest, last, calls, canon, twin, inflight, explorer>>

\* execute_training_job returns its result
JobCompletes ==
    /\ \E i \in 1..Len(scheduler.tasks) :
          /\ scheduler.tasks[i].status = "running"
          /\ scheduler' = [scheduler EXCEPT !.tasks[i].status = "completed"]
    /\ UNCHANGED <<now, ledger, tree, forest, last, calls, canon, twin, inflight, explorer>>

\* execute_training_job: a step raises; status "failed", then raise
JobFails ==
    /\ \E i \in 1..Len(scheduler.tasks) :
          /\ scheduler.tasks[i].status = "running"
          /\ scheduler' = [scheduler EXCEPT !.tasks[i].status = "failed"]
    /\ UNCHANGED <<now, ledger, tree, forest, last, calls, canon, twin, inflight, explorer>>

\* await asyncio.gather(*tasks) returns: every task is done, none raised;
\* run_forever goes to sleep
GatherReturns ==
    /\ scheduler.pc = "awaiting"
    /\ \A i \in 1..Len(scheduler.tasks) : scheduler.tasks[i].status = "completed"
    /\ scheduler' = [scheduler EXCEPT !.pc = "sleeping",
                                       !.sleep_until = now + PollInterval]
    /\ UNCHANGED <<now, ledger, tree, forest, last, calls, canon, twin, inflight, explorer>>

\* await asyncio.gather(*tasks) raises the exception of the first task that
\* failed, whatever the others are doing; neither run_pending nor
\* run_forever catches it
GatherRaises ==
    /\ scheduler.pc = "awaiting"
    /\ \E i \in 1..Len(scheduler.tasks) : scheduler.tasks[i].status = "failed"
    /\ scheduler' = [scheduler EXCEPT !.pc = "raised"]
    /\ UNCHANGED <<now, ledger, tree, forest, last, calls, canon, twin, inflight, explorer>>

\* await asyncio.sleep(self.poll_interval_seconds) is over
Wakes ==
    /\ scheduler.pc = "sleeping"
    /\ now >= scheduler.sleep_until
    /\ scheduler' = [scheduler EXCEPT !.pc = "polling"]
    /\ UNCHANGED <<now, ledger, tree, forest, last, calls, canon, twin, inflight, explorer>>

\* time passes
Tick ==
    /\ now < SchedMaxTime
    /\ now' = now + 1
    /\ UNCHANGED <<ledger, tree, forest, last, calls, canon, twin, inflight, explorer, scheduler>>

NextScheduler ==
    \/ RunPending
    \/ JobCompletes
    \/ JobFails
    \/ GatherReturns
    \/ GatherRaises
    \/ Wakes
    \/ Tick

SpecScheduler == InitScheduler /\ [][NextScheduler]_vars

\* C39: a job that fails does not end run_forever: no exception of a job
\* started by run_pending leaves the polling loop, which goes on to sleep and
\* to poll.
C39_KeepsRunning == scheduler.pc # "raised"

====
